---- MODULE Spec2Model ----
(***************************************************************************)
(* F1 2020 UDP telemetry decoding (bin/packets.py).                        *)
(*                                                                         *)
(* The module models the ctypes schemas of the ten packet kinds, the       *)
(* layout rules ctypes applies to them (_pack_ = 1, little endian), the    *)
(* registry HeaderFieldsToPacketType and the function unpack_udp_packet,   *)
(* statement by statement, together with __repr__ of the decoded records.  *)
(*                                                                         *)
(* Bytes are integers 0..255 and a buffer is a sequence of bytes.  A       *)
(* decoded structure is, as in ctypes, a private copy of sizeof(type)      *)
(* bytes; a field is read by decoding the bytes at the field's offset.     *)
(* c_float and c_double values are kept as their bit patterns (the tuple   *)
(* of their bytes): IEEE-754 interpretation is a bijection on the patterns *)
(* used here and plays no part in dispatch.                                *)
(***************************************************************************)
EXTENDS Integers, Sequences, FiniteSets, TLC

\* ------------------------------------------------------------------------
\* Bounds of the model
\* ------------------------------------------------------------------------

\* packetId values 0..MaxKind are fed to the decoder (10 and above are not
\* members of PacketID).
MaxKind == 10

\* buffer lengths within MaxSlack bytes of a documented size are tried
MaxSlack == 1

\* datagrams decoded in one run
MaxCalls == 2

\* ------------------------------------------------------------------------
\* ctypes: primitive types, arrays, structures, unions
\* ------------------------------------------------------------------------

Prim(name, size, signed) ==
    [k |-> "prim", name |-> name, size |-> size, signed |-> signed]

c_uint8  == Prim("c_uint8", 1, FALSE)
c_int8   == Prim("c_int8", 1, TRUE)
c_uint16 == Prim("c_uint16", 2, FALSE)
c_int16  == Prim("c_int16", 2, TRUE)
c_uint32 == Prim("c_uint32", 4, FALSE)
c_uint64 == Prim("c_uint64", 8, FALSE)
c_float  == Prim("c_float", 4, FALSE)
c_double == Prim("c_double", 8, FALSE)
c_char   == Prim("c_char", 1, FALSE)

Array(elem, n) == [k |-> "array", elem |-> elem, n |-> n]

\* a class without _pack_ lays its fields out at their natural alignment
NaturalAlignment == 0

\* _pack_ of PackedLittleEndianStructure
PackedLittleEndianStructure_pack == 1

\* class X(PackedLittleEndianStructure): _fields_ = fields
Structure(name, fields) ==
    [k |-> "struct", name |-> name, pack |-> PackedLittleEndianStructure_pack,
     fields |-> fields]

\* class X(ctypes.Union): _fields_ = fields   (no _pack_)
Union(name, fields) ==
    [k |-> "union", name |-> name, pack |-> NaturalAlignment, fields |-> fields]

\* ------------------------------------------------------------------------
\* The schemas, field by field as declared
\* ------------------------------------------------------------------------

\* variant: packetId declared before packetVersion
PacketHeader_reordered ==
    Structure("PacketHeader", <<
        <<"packetFormat", c_uint16>>,
        <<"gameMajorVersion", c_uint8>>,
        <<"gameMinorVersion", c_uint8>>,
        <<"packetId", c_uint8>>,
        <<"packetVersion", c_uint8>>,
        <<"sessionUID", c_uint64>>,
        <<"sessionTime", c_float>>,
        <<"frameIdentifier", c_uint32>>,
        <<"playerCarIndex", c_uint8>>,
        <<"secondaryPlayerCarIndex", c_uint8>> >>)

PacketHeader ==
    Structure("PacketHeader", <<
        <<"packetFormat", c_uint16>>,
        <<"gameMajorVersion", c_uint8>>,
        <<"gameMinorVersion", c_uint8>>,
        <<"packetVersion", c_uint8>>,
        <<"packetId", c_uint8>>,
        <<"sessionUID", c_uint64>>,
        <<"sessionTime", c_float>>,
        <<"frameIdentifier", c_uint32>>,
        <<"playerCarIndex", c_uint8>>,
        <<"secondaryPlayerCarIndex", c_uint8>> >>)

CarMotionData_V1 ==
    Structure("CarMotionData_V1", <<
        <<"worldPositionX", c_float>>,
        <<"worldPositionY", c_float>>,
        <<"worldPositionZ", c_float>>,
        <<"worldVelocityX", c_float>>,
        <<"worldVelocityY", c_float>>,
        <<"worldVelocityZ", c_float>>,
        <<"worldForwardDirX", c_int16>>,
        <<"worldForwardDirY", c_int16>>,
        <<"worldForwardDirZ", c_int16>>,
        <<"worldRightDirX", c_int16>>,
        <<"worldRightDirY", c_int16>>,
        <<"worldRightDirZ", c_int16>>,
        <<"gForceLateral", c_float>>,
        <<"gForceLongitudinal", c_float>>,
        <<"gForceVertical", c_float>>,
        <<"yaw", c_float>>,
        <<"pitch", c_float>>,
        <<"roll", c_float>> >>)

PacketMotionData_V1 ==
    Structure("PacketMotionData_V1", <<
        <<"header", PacketHeader>>,
        <<"carMotionData", Array(CarMotionData_V1, 22)>>,
        <<"suspensionPosition", Array(c_float, 4)>>,
        <<"suspensionVelocity", Array(c_float, 4)>>,
        <<"suspensionAcceleration", Array(c_float, 4)>>,
        <<"wheelSpeed", Array(c_float, 4)>>,
        <<"wheelSlip", Array(c_float, 4)>>,
        <<"localVelocityX", c_float>>,
        <<"localVelocityY", c_float>>,
        <<"localVelocityZ", c_float>>,
        <<"angularVelocityX", c_float>>,
        <<"angularVelocityY", c_float>>,
        <<"angularVelocityZ", c_float>>,
        <<"angularAccelerationX", c_float>>,
        <<"angularAccelerationY", c_float>>,
        <<"angularAccelerationZ", c_float>>,
        <<"frontWheelsAngle", c_float>> >>)

MarshalZone_V1 ==
    Structure("MarshalZone_V1", <<
        <<"zoneStart", c_float>>,
        <<"zoneFlag", c_int8>> >>)

WeatherForecastSample ==
    Structure("WeatherForecastSample", <<
        <<"sessionType", c_uint8>>,
        <<"timeOffset", c_uint8>>,
        <<"weather", c_uint8>>,
        <<"trackTemperature", c_int8>>,
        <<"airTemperature", c_int8>> >>)

PacketSessionData_V1 ==
    Structure("PacketSessionData_V1", <<
        <<"header", PacketHeader>>,
        <<"weather", c_uint8>>,
        <<"trackTemperature", c_int8>>,
        <<"airTemperature", c_int8>>,
        <<"totalLaps", c_uint8>>,
        <<"trackLength", c_uint16>>,
        <<"sessionType", c_uint8>>,
        <<"trackId", c_int8>>,
        <<"formula", c_uint8>>,
        <<"sessionTimeLeft", c_uint16>>,
        <<"sessionDuration", c_uint16>>,
        <<"pitSpeedLimit", c_uint8>>,
        <<"gamePaused", c_uint8>>,
        <<"isSpectating", c_uint8>>,
        <<"spectatorCarIndex", c_uint8>>,
        <<"sliProNativeSupport", c_uint8>>,
        <<"numMarshalZones", c_uint8>>,
        <<"marshalZones", Array(MarshalZone_V1, 21)>>,
        <<"safetyCarStatus", c_uint8>>,
        <<"networkGame", c_uint8>>,
        <<"numWeatherForecastSamples", c_uint8>>,
        <<"weatherForecastSamples", Array(WeatherForecastSample, 20)>> >>)

LapData_V1 ==
    Structure("LapData_V1", <<
        <<"lastLapTime", c_float>>,
        <<"currentLapTime", c_float>>,
        <<"sector1TimeInMS", c_uint16>>,
        <<"sector2TimeInMS", c_uint16>>,
        <<"bestLapTime", c_float>>,
        <<"bestLapNum", c_uint8>>,
        <<"bestLapSector1TimeInMS", c_uint16>>,
        <<"bestLapSector2TimeInMS", c_uint16>>,
        <<"bestLapSector3TimeInMS", c_uint16>>,
        <<"bestOverallSector1TimeInMS", c_uint16>>,
        <<"bestOverallSector1LapNum", c_uint8>>,
        <<"bestOverallSector2TimeInMS", c_uint16>>,
        <<"bestOverallSector2LapNum", c_uint8>>,
        <<"bestOverallSector3TimeInMS", c_uint16>>,
        <<"bestOverallSector3LapNum", c_uint8>>,
        <<"lapDistance", c_float>>,
        <<"totalDistance", c_float>>,
        <<"safetyCarDelta", c_float>>,
        <<"carPosition", c_uint8>>,
        <<"currentLapNum", c_uint8>>,
        <<"pitStatus", c_uint8>>,
        <<"sector", c_uint8>>,
        <<"currentLapInvalid", c_uint8>>,
        <<"penalties", c_uint8>>,
        <<"gridPosition", c_uint8>>,
        <<"driverStatus", c_uint8>>,
        <<"resultStatus", c_uint8>> >>)

PacketLapData_V1 ==
    Structure("PacketLapData_V1", <<
        <<"header", PacketHeader>>,
        <<"lapData", Array(LapData_V1, 22)>> >>)

FastestLapData ==
    Structure("FastestLapData", <<
        <<"vehicleIdx", c_uint8>>,
        <<"lapTime", c_float>> >>)

\* variant: the penalty payload without its last field
PenaltyData_short ==
    Structure("PenaltyData", <<
        <<"penaltyType", c_uint8>>,
        <<"infringementType", c_uint8>>,
        <<"vehicleIdx", c_uint8>>,
        <<"otherVehicleIdx", c_uint8>>,
        <<"time", c_uint8>>,
        <<"lapNum", c_uint8>> >>)

PenaltyData ==
    Structure("PenaltyData", <<
        <<"penaltyType", c_uint8>>,
        <<"infringementType", c_uint8>>,
        <<"vehicleIdx", c_uint8>>,
        <<"otherVehicleIdx", c_uint8>>,
        <<"time", c_uint8>>,
        <<"lapNum", c_uint8>>,
        <<"placesGained", c_uint8>> >>)

\* variant: the race-winner payload reads a second byte
RaceWinnerData_wide ==
    Structure("RaceWinnerData", <<
        <<"vehicleIdx", c_uint8>>,
        <<"lapNum", c_uint8>> >>)

RaceWinnerData ==
    Structure("RaceWinnerData", <<
        <<"vehicleIdx", c_uint8>> >>)

RetirementData ==
    Structure("RetirementData", <<
        <<"vehicleIdx", c_uint8>> >>)

SpeedTrapData ==
    Structure("SpeedTrapData", <<
        <<"vehicleIdx", c_uint8>>,
        <<"speed", c_float>> >>)

TeamMateInPitsData ==
    Structure("TeamMateInPitsData", <<
        <<"vehicleIdx", c_uint8>> >>)

EventDataDetails ==
    Union("EventDataDetails", <<
        <<"fastestLap", FastestLapData>>,
        <<"penalty", PenaltyData>>,
        <<"raceWinner", RaceWinnerData>>,
        <<"retirement", RetirementData>>,
        <<"speedTrap", SpeedTrapData>>,
        <<"teamMateInPits", TeamMateInPitsData>> >>)

PacketEventData_V1 ==
    Structure("PacketEventData_V1", <<
        <<"header", PacketHeader>>,
        <<"eventStringCode", Array(c_char, 4)>>,
        <<"eventDetails", EventDataDetails>> >>)

ParticipantData_V1 ==
    Structure("ParticipantData_V1", <<
        <<"aiControlled", c_uint8>>,
        <<"driverId", c_uint8>>,
        <<"teamId", c_uint8>>,
        <<"raceNumber", c_uint8>>,
        <<"nationality", c_uint8>>,
        <<"name", Array(c_char, 48)>>,
        <<"yourTelemetry", c_uint8>> >>)

\* variant: the participants packet with the 20 cars of the 2019 format
PacketParticipantsData_V1_20cars ==
    Structure("PacketParticipantsData_V1", <<
        <<"header", PacketHeader>>,
        <<"numActiveCars", c_uint8>>,
        <<"participants", Array(ParticipantData_V1, 20)>> >>)

PacketParticipantsData_V1 ==
    Structure("PacketParticipantsData_V1", <<
        <<"header", PacketHeader>>,
        <<"numActiveCars", c_uint8>>,
        <<"participants", Array(ParticipantData_V1, 22)>> >>)

CarSetupData_V1 ==
    Structure("CarSetupData_V1", <<
        <<"frontWing", c_uint8>>,
        <<"rearWing", c_uint8>>,
        <<"onThrottle", c_uint8>>,
        <<"offThrottle", c_uint8>>,
        <<"frontCamber", c_float>>,
        <<"rearCamber", c_float>>,
        <<"frontToe", c_float>>,
        <<"rearToe", c_float>>,
        <<"frontSuspension", c_uint8>>,
        <<"rearSuspension", c_uint8>>,
        <<"frontAntiRollBar", c_uint8>>,
        <<"rearAntiRollBar", c_uint8>>,
        <<"frontSuspensionHeight", c_uint8>>,
        <<"rearSuspensionHeight", c_uint8>>,
        <<"brakePressure", c_uint8>>,
        <<"brakeBias", c_uint8>>,
        <<"rearLeftTyrePressure", c_float>>,
        <<"rearRightTyrePressure", c_float>>,
        <<"frontLeftTyrePressure", c_float>>,
        <<"frontRightTyrePressure", c_float>>,
        <<"ballast", c_uint8>>,
        <<"fuelLoad", c_float>> >>)

PacketCarSetupData_V1 ==
    Structure("PacketCarSetupData_V1", <<
        <<"header", PacketHeader>>,
        <<"carSetups", Array(CarSetupData_V1, 22)>> >>)

CarTelemetryData_V1 ==
    Structure("CarTelemetryData_V1", <<
        <<"speed", c_uint16>>,
        <<"throttle", c_float>>,
        <<"steer", c_float>>,
        <<"brake", c_float>>,
        <<"clutch", c_uint8>>,
        <<"gear", c_int8>>,
        <<"engineRPM", c_uint16>>,
        <<"drs", c_uint8>>,
        <<"revLightsPercent", c_uint8>>,
        <<"brakesTemperature", Array(c_uint16, 4)>>,
        <<"tyresSurfaceTemperature", Array(c_uint8, 4)>>,
        <<"tyresInnerTemperature", Array(c_uint8, 4)>>,
        <<"engineTemperature", c_uint16>>,
        <<"tyresPressure", Array(c_float, 4)>>,
        <<"surfaceType", Array(c_uint8, 4)>> >>)

PacketCarTelemetryData_V1 ==
    Structure("PacketCarTelemetryData_V1", <<
        <<"header", PacketHeader>>,
        <<"carTelemetryData", Array(CarTelemetryData_V1, 22)>>,
        <<"buttonStatus", c_uint32>>,
        <<"mfdPanelIndex", c_uint8>>,
        <<"mfdPanelIndexSecondaryPlayer", c_uint8>>,
        <<"suggestedGear", c_int8>> >>)

CarStatusData_V1 ==
    Structure("CarStatusData_V1", <<
        <<"tractionControl", c_uint8>>,
        <<"antiLockBrakes", c_uint8>>,
        <<"fuelMix", c_uint8>>,
        <<"frontBrakeBias", c_uint8>>,
        <<"pitLimiterStatus", c_uint8>>,
        <<"fuelInTank", c_float>>,
        <<"fuelCapacity", c_float>>,
        <<"fuelRemainingLaps", c_float>>,
        <<"maxRPM", c_uint16>>,
        <<"idleRPM", c_uint16>>,
        <<"maxGears", c_uint8>>,
        <<"drsAllowed", c_uint8>>,
        <<"drsActivationDistance", c_uint16>>,
        <<"tyresWear", Array(c_uint8, 4)>>,
        <<"actualTyreCompound", c_uint8>>,
        <<"visualTyreCompound", c_uint8>>,
        <<"tyresAgeLaps", c_uint8>>,
        <<"tyresDamage", Array(c_uint8, 4)>>,
        <<"frontLeftWingDamage", c_uint8>>,
        <<"frontRightWingDamage", c_uint8>>,
        <<"rearWingDamage", c_uint8>>,
        <<"drsFault", c_uint8>>,
        <<"engineDamage", c_uint8>>,
        <<"gearBoxDamage", c_uint8>>,
        <<"vehicleFiaFlags", c_int8>>,
        <<"ersStoreEnergy", c_float>>,
        <<"ersDeployMode", c_uint8>>,
        <<"ersHarvestedThisLapMGUK", c_float>>,
        <<"ersHarvestedThisLapMGUH", c_float>>,
        <<"ersDeployedThisLap", c_float>> >>)

PacketCarStatusData_V1 ==
    Structure("PacketCarStatusData_V1", <<
        <<"header", PacketHeader>>,
        <<"carStatusData", Array(CarStatusData_V1, 22)>> >>)

FinalClassificationData_V1 ==
    Structure("FinalClassificationData_V1", <<
        <<"position", c_uint8>>,
        <<"numLaps", c_uint8>>,
        <<"gridPosition", c_uint8>>,
        <<"points", c_uint8>>,
        <<"numPitStops", c_uint8>>,
        <<"resultStatus", c_uint8>>,
        <<"bestLapTime", c_float>>,
        <<"totalRaceTime", c_double>>,
        <<"penaltiesTime", c_uint8>>,
        <<"numPenalties", c_uint8>>,
        <<"numTyreStints", c_uint8>>,
        <<"tyreStintsActual", Array(c_uint8, 8)>>,
        <<"tyreStintsVisual", Array(c_uint8, 8)>> >>)

PacketFinalClassificationData_V1 ==
    Structure("PacketFinalClassificationData_V1", <<
        <<"header", PacketHeader>>,
        <<"numCars", c_uint8>>,
        <<"classificationData", Array(FinalClassificationData_V1, 22)>> >>)

LobbyInfoData_V1 ==
    Structure("LobbyInfoData_V1", <<
        <<"aiControlled", c_uint8>>,
        <<"teamId", c_uint8>>,
        <<"nationality", c_uint8>>,
        <<"name", Array(c_char, 48)>>,
        <<"readyStatus", c_uint8>> >>)

PacketLobbyInfoData_V1 ==
    Structure("PacketLobbyInfoData_V1", <<
        <<"header", PacketHeader>>,
        <<"numPlayers", c_uint8>>,
        <<"lobbyPlayers", Array(LobbyInfoData_V1, 22)>> >>)

\* ------------------------------------------------------------------------
\* ctypes layout: alignment, offsets, sizes
\* ------------------------------------------------------------------------

Max(a, b) == IF a >= b THEN a ELSE b
Min(a, b) == IF a <= b THEN a ELSE b
RoundUp(n, a) == ((n + a - 1) \div a) * a

RECURSIVE alignment(_)
RECURSIVE FieldAlign(_, _)
RECURSIVE MaxAlignIn(_, _, _)
RECURSIVE MaxFieldAlign(_, _)

\* ctypes.alignment(T)
alignment(T) ==
    CASE T.k = "prim"  -> T.size
      [] T.k = "array" -> alignment(T.elem)
      [] OTHER         -> MaxFieldAlign(T, Len(T.fields))

\* variant: _pack_ is ignored
FieldAlign_natural(T, i) == alignment(T.fields[i][2])

\* alignment of the i-th field inside T: _pack_ caps the natural alignment
FieldAlign(T, i) ==
    IF T.pack > 0
    THEN Min(T.pack, alignment(T.fields[i][2]))
    ELSE alignment(T.fields[i][2])

\* the largest alignment among the fields a..b of T (the run is walked as
\* two halves)
MaxAlignIn(T, a, b) ==
    IF a = b THEN FieldAlign(T, a)
    ELSE Max(MaxAlignIn(T, a, (a + b) \div 2), MaxAlignIn(T, (a + b) \div 2 + 1, b))

\* the largest alignment among the first i fields of T, 1 when there is none
MaxFieldAlign(T, i) == IF i = 0 THEN 1 ELSE MaxAlignIn(T, 1, i)

RECURSIVE sizeof(_)
RECURSIVE LayOut(_, _, _, _)
RECURSIVE MaxFieldSize(_, _)

\* the first free offset once the fields a..b of the structure T are laid
\* out one after the other from offset o on, each at the next multiple of
\* its alignment (the run is walked as two halves, the first half first)
LayOut(T, a, b, o) ==
    IF a > b THEN o
    ELSE IF a = b THEN RoundUp(o, FieldAlign(T, a)) + sizeof(T.fields[a][2])
    ELSE LET m    == (a + b) \div 2
             left == LayOut(T, a, m, o)
         IN  IF left >= o THEN LayOut(T, m + 1, b, left) ELSE left

\* offset of the i-th field of T (T.<field>.offset); every member of a union
\* starts at 0
FieldOffset(T, i) ==
    IF T.k = "union" THEN 0
    ELSE RoundUp(LayOut(T, 1, i - 1, 0), FieldAlign(T, i))

MaxFieldSize(T, i) ==
    IF i = 0 THEN 0 ELSE Max(sizeof(T.fields[i][2]), MaxFieldSize(T, i - 1))

\* ctypes.sizeof(T)
sizeof(T) ==
    CASE T.k = "prim"   -> T.size
      [] T.k = "array"  -> T.n * sizeof(T.elem)
      [] T.k = "struct" ->
            LET n == Len(T.fields)
            IN  RoundUp(IF n = 0 THEN 0
                        ELSE FieldOffset(T, n) + sizeof(T.fields[n][2]),
                        alignment(T))
      [] OTHER          -> RoundUp(MaxFieldSize(T, Len(T.fields)), alignment(T))

\* index of the field called name in T._fields_
FieldIndex(T, name) == CHOOSE i \in 1..Len(T.fields) : T.fields[i][1] = name

\* T.<name>.offset
OffsetOf(T, name) == FieldOffset(T, FieldIndex(T, name))

TypeOfField(T, name) == T.fields[FieldIndex(T, name)][2]

\* ------------------------------------------------------------------------
\* ctypes: reading values out of a structure's bytes (little endian)
\* ------------------------------------------------------------------------

\* variant: only the first byte of the field is taken
LittleEndian_lowbyte(raw, off, n) == raw[off + 1]

RECURSIVE LittleEndian(_, _, _)
\* the unsigned integer held by the n bytes of raw that start at offset off,
\* least significant byte first
LittleEndian(raw, off, n) ==
    IF n = 0 THEN 0
    ELSE raw[off + 1] + 256 * LittleEndian(raw, off + 1, n - 1)

Bytes(raw, off, n) == [i \in 1..n |-> raw[off + i]]

\* value of a field of primitive type T at offset off
GetValue(T, raw, off) ==
    CASE T.name \in {"c_float", "c_double", "c_char"} -> Bytes(raw, off, T.size)
      [] T.signed ->
            LET u == LittleEndian(raw, off, T.size)
            IN  IF u >= 2 ^ (8 * T.size - 1) THEN u - 2 ^ (8 * T.size) ELSE u
      [] OTHER -> LittleEndian(raw, off, T.size)

RECURSIVE CharArrayValue(_, _, _)
\* value of a (c_char * n) field: the bytes up to the first NUL
CharArrayValue(raw, off, n) ==
    IF n = 0 \/ raw[off + 1] = 0 THEN <<>>
    ELSE <<raw[off + 1]>> \o CharArrayValue(raw, off + 1, n - 1)

\* variant: only the header bytes are carried over, the rest is left zero
from_buffer_copy_header_only(T, buf) ==
    IF Len(buf) < sizeof(T)
    THEN [ok |-> FALSE, raw |-> <<>>]
    ELSE [ok |-> TRUE,
          raw |-> [i \in 1..sizeof(T) |-> IF i <= 24 THEN buf[i] ELSE 0]]

\* T.from_buffer_copy(buf): a private copy of the first sizeof(T) bytes;
\* ctypes raises ValueError when buf is smaller than T
from_buffer_copy(T, buf) ==
    IF Len(buf) < sizeof(T)
    THEN [ok |-> FALSE, raw |-> <<>>]
    ELSE [ok |-> TRUE, raw |-> SubSeq(buf, 1, sizeof(T))]

RECURSIVE ValueOf(_, _, _)
\* getattr: the value of a field of type T located at offset off of raw.
\* Structures (and arrays of them) are shown the way
\* PackedLittleEndianStructure.__repr__ walks them: class name and the
\* (name, value) pairs of _fields_, in order.
ValueOf(T, raw, off) ==
    CASE T.k = "prim" -> GetValue(T, raw, off)
      [] T.k = "array" ->
            IF T.elem.k = "prim" /\ T.elem.name = "c_char"
            THEN CharArrayValue(raw, off, T.n)
            ELSE [i \in 1..T.n |-> ValueOf(T.elem, raw, off + (i - 1) * sizeof(T.elem))]
      [] OTHER ->
            [cls |-> T.name,
             fields |-> [i \in 1..Len(T.fields) |->
                            <<T.fields[i][1],
                              ValueOf(T.fields[i][2], raw, off + FieldOffset(T, i))>>]]

\* instance.<name> for an instance of T whose bytes start at offset off
GetAttr(T, raw, off, name) ==
    ValueOf(TypeOfField(T, name), raw, off + OffsetOf(T, name))

\* ------------------------------------------------------------------------
\* Enumerations
\* ------------------------------------------------------------------------

PacketID ==
    [MOTION |-> 0, SESSION |-> 1, LAP_DATA |-> 2, EVENT |-> 3,
     PARTICIPANTS |-> 4, CAR_SETUPS |-> 5, CAR_TELEMETRY |-> 6,
     CAR_STATUS |-> 7, FINAL_CLASSIFICATION |-> 8, LOBBY_INFO |-> 9]

PacketIDValues == {PacketID[m] : m \in DOMAIN PacketID}

\* ord() of the characters that occur in event codes
Ord ==
    [c \in {"A", "C", "D", "E", "F", "H", "L", "M", "N", "P", "Q", "R", "S",
            "T", "W", "X"} |->
        CASE c = "A" -> 65 [] c = "C" -> 67 [] c = "D" -> 68 [] c = "E" -> 69
          [] c = "F" -> 70 [] c = "H" -> 72 [] c = "L" -> 76 [] c = "M" -> 77
          [] c = "N" -> 78 [] c = "P" -> 80 [] c = "Q" -> 81 [] c = "R" -> 82
          [] c = "S" -> 83 [] c = "T" -> 84 [] c = "W" -> 87 [] c = "X" -> 88]

\* the four-character string (or bytes literal) abcd
Str4(a, b, c, d) == <<Ord[a], Ord[b], Ord[c], Ord[d]>>

EventStringCode ==
    [SSTA |-> Str4("S", "S", "T", "A"),
     SEND |-> Str4("S", "E", "N", "D"),
     FTLP |-> Str4("F", "T", "L", "P"),
     RTMT |-> Str4("R", "T", "M", "T"),
     DRSE |-> Str4("D", "R", "S", "E"),
     DRSD |-> Str4("D", "R", "S", "D"),
     TMPT |-> Str4("T", "M", "P", "T"),
     CHQF |-> Str4("C", "H", "Q", "F"),
     RCWN |-> Str4("R", "C", "W", "N"),
     PENA |-> Str4("P", "E", "N", "A"),
     SPTP |-> Str4("S", "P", "T", "P")]

EventStringCodeValues == {EventStringCode[m] : m \in DOMAIN EventStringCode}

\* ------------------------------------------------------------------------
\* The registry and the classes it names
\* ------------------------------------------------------------------------

\* variant: version 2 of the event packet is registered as well
HeaderFieldsToPacketTypeInit_extra ==
    (<<2020, 1, 0>> :> "PacketMotionData_V1") @@
    (<<2020, 1, 1>> :> "PacketSessionData_V1") @@
    (<<2020, 1, 2>> :> "PacketLapData_V1") @@
    (<<2020, 1, 3>> :> "PacketEventData_V1") @@
    (<<2020, 2, 3>> :> "PacketEventData_V1") @@
    (<<2020, 1, 4>> :> "PacketParticipantsData_V1") @@
    (<<2020, 1, 5>> :> "PacketCarSetupData_V1") @@
    (<<2020, 1, 6>> :> "PacketCarTelemetryData_V1") @@
    (<<2020, 1, 7>> :> "PacketCarStatusData_V1") @@
    (<<2020, 1, 8>> :> "PacketFinalClassificationData_V1") @@
    (<<2020, 1, 9>> :> "PacketLobbyInfoData_V1")

\* Map from (packetFormat, packetVersion, packetId) to a specific packet type.
HeaderFieldsToPacketTypeInit ==
    (<<2020, 1, 0>> :> "PacketMotionData_V1") @@
    (<<2020, 1, 1>> :> "PacketSessionData_V1") @@
    (<<2020, 1, 2>> :> "PacketLapData_V1") @@
    (<<2020, 1, 3>> :> "PacketEventData_V1") @@
    (<<2020, 1, 4>> :> "PacketParticipantsData_V1") @@
    (<<2020, 1, 5>> :> "PacketCarSetupData_V1") @@
    (<<2020, 1, 6>> :> "PacketCarTelemetryData_V1") @@
    (<<2020, 1, 7>> :> "PacketCarStatusData_V1") @@
    (<<2020, 1, 8>> :> "PacketFinalClassificationData_V1") @@
    (<<2020, 1, 9>> :> "PacketLobbyInfoData_V1")

\* the class object bound to a class name
Class(name) ==
    CASE name = "PacketHeader"                     -> PacketHeader
      [] name = "PacketMotionData_V1"              -> PacketMotionData_V1
      [] name = "PacketSessionData_V1"             -> PacketSessionData_V1
      [] name = "PacketLapData_V1"                 -> PacketLapData_V1
      [] name = "PacketEventData_V1"               -> PacketEventData_V1
      [] name = "PacketParticipantsData_V1"        -> PacketParticipantsData_V1
      [] name = "PacketCarSetupData_V1"            -> PacketCarSetupData_V1
      [] name = "PacketCarTelemetryData_V1"        -> PacketCarTelemetryData_V1
      [] name = "PacketCarStatusData_V1"           -> PacketCarStatusData_V1
      [] name = "PacketFinalClassificationData_V1" -> PacketFinalClassificationData_V1
      [] name = "PacketLobbyInfoData_V1"           -> PacketLobbyInfoData_V1

\* the sizes asserted when the module is executed rather than imported,
\* by packetId
MainSizeAssertions ==
    (0 :> 1464) @@ (1 :> 251) @@ (2 :> 1190) @@ (3 :> 35) @@ (4 :> 1213) @@
    (5 :> 1102) @@ (6 :> 1307) @@ (7 :> 1344) @@ (8 :> 839) @@ (9 :> 1169)

\* ------------------------------------------------------------------------
\* __repr__
\* ------------------------------------------------------------------------

\* bytes.decode(): the codes fed to the model hold ASCII bytes and 0xFF
\* only; ASCII decodes to itself and 0xFF is never valid UTF-8
Utf8Decodable(bs) == \A i \in 1..Len(bs) : bs[i] < 128

NoRepr ==
    [raised |-> "", cls |-> "", fields |-> <<>>, member |-> "",
     eventDetails |-> [cls |-> "", fields |-> <<>>]]

\* PackedLittleEndianStructure.__repr__(self) for an instance of T
PackedLittleEndianStructure_repr(T, raw) ==
    LET v == ValueOf(T, raw, 0)
    IN  [NoRepr EXCEPT !.cls = v.cls, !.fields = v.fields]

\* variant: an unrecognised code is rendered as a fastest lap
EventDetailsMember_default(event) ==
    CASE event = Str4("P", "E", "N", "A") -> "penalty"
      [] event = Str4("R", "C", "W", "N") -> "raceWinner"
      [] event = Str4("R", "T", "M", "T") -> "retirement"
      [] event = Str4("S", "P", "T", "P") -> "speedTrap"
      [] event = Str4("T", "M", "P", "T") -> "teamMateInPits"
      [] OTHER -> "fastestLap"

\* variant: the race-winner and retirement branches are exchanged
EventDetailsMember_swapped(event) ==
    CASE event = Str4("F", "T", "L", "P") -> "fastestLap"
      [] event = Str4("P", "E", "N", "A") -> "penalty"
      [] event = Str4("R", "C", "W", "N") -> "retirement"
      [] event = Str4("R", "T", "M", "T") -> "raceWinner"
      [] event = Str4("S", "P", "T", "P") -> "speedTrap"
      [] event = Str4("T", "M", "P", "T") -> "teamMateInPits"
      [] OTHER -> ""

\* variant: the branch of the team-mate-in-pits event is missing
EventDetailsMember_nopits(event) ==
    CASE event = Str4("F", "T", "L", "P") -> "fastestLap"
      [] event = Str4("P", "E", "N", "A") -> "penalty"
      [] event = Str4("R", "C", "W", "N") -> "raceWinner"
      [] event = Str4("R", "T", "M", "T") -> "retirement"
      [] event = Str4("S", "P", "T", "P") -> "speedTrap"
      [] OTHER -> ""

\* the union member __repr__ renders for a decoded event string
EventDetailsMember(event) ==
    CASE event = Str4("F", "T", "L", "P") -> "fastestLap"
      [] event = Str4("P", "E", "N", "A") -> "penalty"
      [] event = Str4("R", "C", "W", "N") -> "raceWinner"
      [] event = Str4("R", "T", "M", "T") -> "retirement"
      [] event = Str4("S", "P", "T", "P") -> "speedTrap"
      [] event = Str4("T", "M", "P", "T") -> "teamMateInPits"
      [] OTHER -> ""

\* variant: the chequered flag is missing from the list
NoDetailsEvents_short ==
    {Str4("D", "R", "S", "D"), Str4("D", "R", "S", "E"),
     Str4("S", "E", "N", "D"), Str4("S", "S", "T", "A")}

\* the events __repr__ renders without eventDetails
NoDetailsEvents ==
    {Str4("C", "H", "Q", "F"), Str4("D", "R", "S", "D"), Str4("D", "R", "S", "E"),
     Str4("S", "E", "N", "D"), Str4("S", "S", "T", "A")}

\* PacketEventData_V1.__repr__(self)
PacketEventData_V1_repr(raw) ==
    LET T     == PacketEventData_V1
        code  == GetAttr(T, raw, 0, "eventStringCode")
        msg   == [NoRepr EXCEPT
                    !.cls = T.name,
                    !.fields = << <<"header", GetAttr(T, raw, 0, "header")>>,
                                  <<"eventStringCode", code>> >>]
        U     == TypeOfField(T, "eventDetails")
        uoff  == OffsetOf(T, "eventDetails")
    IN  IF ~Utf8Decodable(code) THEN [NoRepr EXCEPT !.raised = "UnicodeDecodeError"]
        ELSE IF code \in NoDetailsEvents THEN msg
        ELSE IF EventDetailsMember(code) = "" THEN [NoRepr EXCEPT !.raised = "RuntimeError"]
        ELSE [msg EXCEPT !.member = EventDetailsMember(code),
                         !.eventDetails = GetAttr(U, raw, uoff, EventDetailsMember(code))]

\* repr(record)
Repr(type, raw) ==
    IF type = "PacketEventData_V1"
    THEN PacketEventData_V1_repr(raw)
    ELSE PackedLittleEndianStructure_repr(Class(type), raw)

\* ------------------------------------------------------------------------
\* Buffers handed to the decoder
\* ------------------------------------------------------------------------

RECURSIVE LEBytes(_, _)
\* the n bytes of v on the wire, least significant first
LEBytes(v, n) == IF n = 0 THEN <<>> ELSE <<v % 256>> \o LEBytes(v \div 256, n - 1)

\* the 24 header bytes as the game writes them
WireHeader(h) ==
    LEBytes(h.packetFormat, 2) \o
    <<h.gameMajorVersion, h.gameMinorVersion, h.packetVersion, h.packetId>> \o
    LEBytes(h.sessionUID, 8) \o h.sessionTime \o LEBytes(h.frameIdentifier, 4) \o
    <<h.playerCarIndex, h.secondaryPlayerCarIndex>>

Formats == {2020, 2021, 58375}
Versions == {1, 2}
Kinds == 0..MaxKind

ZeroHeader(f, v, k) ==
    [packetFormat |-> f, gameMajorVersion |-> 0, gameMinorVersion |-> 0,
     packetVersion |-> v, packetId |-> k, sessionUID |-> 0,
     sessionTime |-> <<0, 0, 0, 0>>, frameIdentifier |-> 0,
     playerCarIndex |-> 0, secondaryPlayerCarIndex |-> 0]

LiveHeader(f, v, k) ==
    [packetFormat |-> f, gameMajorVersion |-> 1, gameMinorVersion |-> 18,
     packetVersion |-> v, packetId |-> k, sessionUID |-> 1234567890,
     sessionTime |-> <<123, 20, 182, 66>>, frameIdentifier |-> 16909060,
     playerCarIndex |-> 19, secondaryPlayerCarIndex |-> 255]

Fill(b, n) == [i \in 1..n |-> b]

\* lengths tried for a buffer whose packetId byte is k
Lengths(k) ==
    {0} \cup
    {s + d : s \in {24} \cup {MainSizeAssertions[j] : j \in {3} \cup ({k} \cap PacketIDValues)},
             d \in (0 - MaxSlack)..MaxSlack}

Triples == Formats \X Versions \X Kinds

Headers ==
    {ZeroHeader(t[1], t[2], t[3]) : t \in Triples} \cup
    {LiveHeader(t[1], t[2], t[3]) : t \in Triples}

\* payload bytes tried after header h: zeros, and "A" after a live header
FillBytes(h) == IF h.gameMajorVersion = 0 THEN {0} ELSE {0, 65}

\* buffers whose payload is one repeated byte, at every length tried
PlainInputs ==
    UNION {{[hdr |-> h, len |-> n, fill |-> b, code |-> Fill(b, 4),
             details |-> Fill(b, 7)] :
                n \in Lengths(h.packetId), b \in FillBytes(h)} : h \in Headers}

\* event codes tried: the eleven members of EventStringCode and five others
CodesTried ==
    EventStringCodeValues \cup
    {<<0, 0, 0, 0>>, Str4("X", "X", "X", "X"), <<70, 84, 76, 0>>,
     <<255, 255, 65, 66>>, <<102, 116, 108, 112>>}

\* payloads tried after the event code: zeros, one payload, the same payload
\* with every byte after the first, or after the fifth, changed, and one
\* whose first two bytes are in no value table
DetailsTried ==
    {<<0, 0, 0, 0, 0, 0, 0>>, <<7, 123, 119, 182, 66, 9, 3>>,
     <<7, 1, 2, 3, 4, 5, 6>>, <<7, 123, 119, 182, 66, 5, 6>>,
     <<99, 99, 1, 2, 3, 4, 5>>}

\* event packets of the documented size
EventInputs ==
    {[hdr |-> LiveHeader(2020, 1, PacketID.EVENT), len |-> MainSizeAssertions[3],
      fill |-> 0, code |-> c, details |-> d] : c \in CodesTried, d \in DetailsTried}

\* participants packets of the documented size; bytes 24..34 hold
\* numActiveCars and, of the first participant, aiControlled, driverId,
\* teamId, raceNumber, nationality and the first characters of the name:
\* one packet names driver 34 of team 0, the other driver 3 of team 20
ParticipantsInputs ==
    {[hdr |-> LiveHeader(2020, 1, PacketID.PARTICIPANTS),
      len |-> MainSizeAssertions[4], fill |-> 0, code |-> c,
      details |-> <<44, 0, 72, 65, 77, 0, 0>>] :
         c \in {<<22, 1, 34, 0>>, <<22, 0, 3, 20>>}}

\* a car-status packet of the documented size whose payload bytes are all
\* 0xFF (it holds no integer field wider than 16 bits)
CarStatusInputs ==
    {[hdr |-> LiveHeader(2020, 1, PacketID.CAR_STATUS),
      len |-> MainSizeAssertions[7], fill |-> 255, code |-> Fill(255, 4),
      details |-> Fill(255, 7)]}

Inputs == PlainInputs \cup EventInputs \cup ParticipantsInputs \cup CarStatusInputs

\* buffers handed to the decoder while another caller is decoding: the
\* event packets with a code of EventStringCode, and buffers of 23, 35 and
\* 36 bytes with the event packetId under the formats 2020 and 2021
ConcInputs ==
    {in \in EventInputs : in.code \in EventStringCodeValues} \cup
    {in \in PlainInputs :
        /\ in.hdr \in {LiveHeader(2020, 1, PacketID.EVENT),
                       LiveHeader(2021, 1, PacketID.EVENT)}
        /\ in.fill = 65
        /\ in.len \in {23, 35, 36}}

\* buffers of the second caller: some of the above, and zero-filled buffers
\* of 35 and 36 bytes that carry nothing but the three key fields
OtherInputs ==
    {in \in ConcInputs : in.details \in {<<7, 123, 119, 182, 66, 9, 3>>, Fill(65, 7)}}
    \cup
    {in \in PlainInputs :
        /\ in.hdr \in {ZeroHeader(2020, 1, PacketID.EVENT),
                       ZeroHeader(2021, 1, PacketID.EVENT)}
        /\ in.len \in {35, 36}}

\* the bytes of the datagram described by input in
MkPacket(in) ==
    LET hb == WireHeader(in.hdr)
    IN  [i \in 1..in.len |->
            IF i <= 24 THEN hb[i]
            ELSE IF i <= 28 THEN in.code[i - 24]
            ELSE IF i <= 35 THEN in.details[i - 28]
            ELSE in.fill]

NoInput ==
    [hdr |-> ZeroHeader(0, 0, 0), len |-> 0, fill |-> 0, code |-> <<>>,
     details |-> <<>>]

\* ------------------------------------------------------------------------
\* Appendices: the value tables and the description maps, as initialised
\* ------------------------------------------------------------------------

TeamIDsInit ==
    (0 :> "Mercedes") @@
    (1 :> "Ferrari") @@
    (2 :> "Red Bull Racing") @@
    (3 :> "Williams") @@
    (4 :> "Racing Point") @@
    (5 :> "Renault") @@
    (6 :> "AlphaTauri") @@
    (7 :> "Haas") @@
    (8 :> "McLaren") @@
    (9 :> "Alfa Romeo") @@
    (10 :> "McLaren 1988") @@
    (11 :> "McLaren 1991") @@
    (12 :> "Williams 1992") @@
    (13 :> "Ferrari 1995") @@
    (14 :> "Williams 1996") @@
    (15 :> "McLaren 1998") @@
    (16 :> "Ferrari 2002") @@
    (17 :> "Ferrari 2004") @@
    (18 :> "Renault 2006") @@
    (19 :> "Ferrari 2007") @@
    (21 :> "Red Bull 2010") @@
    (22 :> "Ferrari 1976") @@
    (23 :> "ART Grand Prix") @@
    (24 :> "Campos Vexatec Racing") @@
    (25 :> "Carlin") @@
    (26 :> "Charouz Racing System") @@
    (27 :> "DAMS") @@
    (28 :> "Russian Time") @@
    (29 :> "MP Motorsport") @@
    (30 :> "Pertamina") @@
    (31 :> "McLaren 1990") @@
    (32 :> "Trident") @@
    (33 :> "BWT Arden") @@
    (34 :> "McLaren 1976") @@
    (35 :> "Lotus 1972") @@
    (36 :> "Ferrari 1979") @@
    (37 :> "McLaren 1982") @@
    (38 :> "Williams 2003") @@
    (39 :> "Brawn 2009") @@
    (40 :> "Lotus 1978") @@
    (41 :> "F1 Generic car") @@
    (42 :> "Art GP '19") @@
    (43 :> "Campos '19") @@
    (44 :> "Carlin '19") @@
    (45 :> "Sauber Junior Charouz '19") @@
    (46 :> "Dams '19") @@
    (47 :> "Uni-Virtuosi '19") @@
    (48 :> "MP Motorsport '19") @@
    (49 :> "Prema '19") @@
    (50 :> "Trident '19") @@
    (51 :> "Arden '19") @@
    (53 :> "Benetton 1994") @@
    (54 :> "Benetton 1995") @@
    (55 :> "Ferrari 2000") @@
    (56 :> "Jordan 1991") @@
    (63 :> "Ferrari 1990") @@
    (64 :> "McLaren 2010") @@
    (65 :> "Ferrari 2010") @@
    (255 :> "My Team")

\* variant: the spelling of the forum post is kept for driver 34
DriverIDsInit_typo ==
    (0 :> "Carlos Sainz") @@
    (1 :> "Daniil Kvyat") @@
    (2 :> "Daniel Ricciardo") @@
    (6 :> "Kimi Räikkönen") @@
    (7 :> "Lewis Hamilton") @@
    (9 :> "Max Verstappen") @@
    (10 :> "Nico Hulkenberg") @@
    (11 :> "Kevin Magnussen") @@
    (12 :> "Romain Grosjean") @@
    (13 :> "Sebastian Vettel") @@
    (14 :> "Sergio Perez") @@
    (15 :> "Valtteri Bottas") @@
    (17 :> "Esteban Ocon") @@
    (19 :> "Lance Stroll") @@
    (20 :> "Arron Barnes") @@
    (21 :> "Martin Giles") @@
    (22 :> "Alex Murray") @@
    (23 :> "Lucas Roth") @@
    (24 :> "Igor Correia") @@
    (25 :> "Sophie Levasseur") @@
    (26 :> "Jonas Schiffer") @@
    (27 :> "Alain Forest") @@
    (28 :> "Jay Letourneau") @@
    (29 :> "Esto Saari") @@
    (30 :> "Yasar Atiyeh") @@
    (31 :> "Callisto Calabresi") @@
    (32 :> "Naota Izum") @@
    (33 :> "Howard Clarke") @@
    (34 :> "Wilheim Kaufmann") @@
    (35 :> "Marie Laursen") @@
    (36 :> "Flavio Nieves") @@
    (37 :> "Peter Belousov") @@
    (38 :> "Klimek Michalski") @@
    (39 :> "Santiago Moreno") @@
    (40 :> "Benjamin Coppens") @@
    (41 :> "Noah Visser") @@
    (42 :> "Gert Waldmuller") @@
    (43 :> "Julian Quesada") @@
    (44 :> "Daniel Jones") @@
    (45 :> "Artem Markelov") @@
    (46 :> "Tadasuke Makino") @@
    (47 :> "Sean Gelael") @@
    (48 :> "Nyck De Vries") @@
    (49 :> "Jack Aitken") @@
    (50 :> "George Russell") @@
    (51 :> "Maximilian Günther") @@
    (52 :> "Nirei Fukuzumi") @@
    (53 :> "Luca Ghiotto") @@
    (54 :> "Lando Norris") @@
    (55 :> "Sérgio Sette Câmara") @@
    (56 :> "Louis Delétraz") @@
    (57 :> "Antonio Fuoco") @@
    (58 :> "Charles Leclerc") @@
    (59 :> "Pierre Gasly") @@
    (62 :> "Alexander Albon") @@
    (63 :> "Nicholas Latifi") @@
    (64 :> "Dorian Boccolacci") @@
    (65 :> "Niko Kari") @@
    (66 :> "Roberto Merhi") @@
    (67 :> "Arjun Maini") @@
    (68 :> "Alessio Lorandi") @@
    (69 :> "Ruben Meijer") @@
    (70 :> "Rashid Nair") @@
    (71 :> "Jack Tremblay") @@
    (74 :> "Antonio Giovinazzi") @@
    (75 :> "Robert Kubica") @@
    (78 :> "Nobuharu Matsushita") @@
    (79 :> "Nikita Mazepin") @@
    (80 :> "Guanyu Zhou") @@
    (81 :> "Mick Schumacher") @@
    (82 :> "Callum Ilott") @@
    (83 :> "Juan Manuel Correa") @@
    (84 :> "Jordan King") @@
    (85 :> "Mahaveer Raghunathan") @@
    (86 :> "Tatiana Calderón") @@
    (87 :> "Anthoine Hubert") @@
    (88 :> "Giuliano Alesi") @@
    (89 :> "Ralph Boschung")

DriverIDsInit ==
    (0 :> "Carlos Sainz") @@
    (1 :> "Daniil Kvyat") @@
    (2 :> "Daniel Ricciardo") @@
    (6 :> "Kimi Räikkönen") @@
    (7 :> "Lewis Hamilton") @@
    (9 :> "Max Verstappen") @@
    (10 :> "Nico Hulkenberg") @@
    (11 :> "Kevin Magnussen") @@
    (12 :> "Romain Grosjean") @@
    (13 :> "Sebastian Vettel") @@
    (14 :> "Sergio Perez") @@
    (15 :> "Valtteri Bottas") @@
    (17 :> "Esteban Ocon") @@
    (19 :> "Lance Stroll") @@
    (20 :> "Arron Barnes") @@
    (21 :> "Martin Giles") @@
    (22 :> "Alex Murray") @@
    (23 :> "Lucas Roth") @@
    (24 :> "Igor Correia") @@
    (25 :> "Sophie Levasseur") @@
    (26 :> "Jonas Schiffer") @@
    (27 :> "Alain Forest") @@
    (28 :> "Jay Letourneau") @@
    (29 :> "Esto Saari") @@
    (30 :> "Yasar Atiyeh") @@
    (31 :> "Callisto Calabresi") @@
    (32 :> "Naota Izum") @@
    (33 :> "Howard Clarke") @@
    (34 :> "Wilhelm Kaufmann") @@
    (35 :> "Marie Laursen") @@
    (36 :> "Flavio Nieves") @@
    (37 :> "Peter Belousov") @@
    (38 :> "Klimek Michalski") @@
    (39 :> "Santiago Moreno") @@
    (40 :> "Benjamin Coppens") @@
    (41 :> "Noah Visser") @@
    (42 :> "Gert Waldmuller") @@
    (43 :> "Julian Quesada") @@
    (44 :> "Daniel Jones") @@
    (45 :> "Artem Markelov") @@
    (46 :> "Tadasuke Makino") @@
    (47 :> "Sean Gelael") @@
    (48 :> "Nyck De Vries") @@
    (49 :> "Jack Aitken") @@
    (50 :> "George Russell") @@
    (51 :> "Maximilian Günther") @@
    (52 :> "Nirei Fukuzumi") @@
    (53 :> "Luca Ghiotto") @@
    (54 :> "Lando Norris") @@
    (55 :> "Sérgio Sette Câmara") @@
    (56 :> "Louis Delétraz") @@
    (57 :> "Antonio Fuoco") @@
    (58 :> "Charles Leclerc") @@
    (59 :> "Pierre Gasly") @@
    (62 :> "Alexander Albon") @@
    (63 :> "Nicholas Latifi") @@
    (64 :> "Dorian Boccolacci") @@
    (65 :> "Niko Kari") @@
    (66 :> "Roberto Merhi") @@
    (67 :> "Arjun Maini") @@
    (68 :> "Alessio Lorandi") @@
    (69 :> "Ruben Meijer") @@
    (70 :> "Rashid Nair") @@
    (71 :> "Jack Tremblay") @@
    (74 :> "Antonio Giovinazzi") @@
    (75 :> "Robert Kubica") @@
    (78 :> "Nobuharu Matsushita") @@
    (79 :> "Nikita Mazepin") @@
    (80 :> "Guanyu Zhou") @@
    (81 :> "Mick Schumacher") @@
    (82 :> "Callum Ilott") @@
    (83 :> "Juan Manuel Correa") @@
    (84 :> "Jordan King") @@
    (85 :> "Mahaveer Raghunathan") @@
    (86 :> "Tatiana Calderón") @@
    (87 :> "Anthoine Hubert") @@
    (88 :> "Giuliano Alesi") @@
    (89 :> "Ralph Boschung")

TrackIDsInit ==
    (0 :> "Melbourne") @@
    (1 :> "Paul Ricard") @@
    (2 :> "Shanghai") @@
    (3 :> "Sakhir (Bahrain)") @@
    (4 :> "Catalunya") @@
    (5 :> "Monaco") @@
    (6 :> "Montreal") @@
    (7 :> "Silverstone") @@
    (8 :> "Hockenheim") @@
    (9 :> "Hungaroring") @@
    (10 :> "Spa") @@
    (11 :> "Monza") @@
    (12 :> "Singapore") @@
    (13 :> "Suzuka") @@
    (14 :> "Abu Dhabi") @@
    (15 :> "Texas") @@
    (16 :> "Brazil") @@
    (17 :> "Austria") @@
    (18 :> "Sochi") @@
    (19 :> "Mexico") @@
    (20 :> "Baku (Azerbaijan)") @@
    (21 :> "Sakhir Short") @@
    (22 :> "Silverstone Short") @@
    (23 :> "Texas Short") @@
    (24 :> "Suzuka Short") @@
    (25 :> "Hanoi") @@
    (26 :> "Zandvoort")

NationalityIDsInit ==
    (1 :> "American") @@
    (2 :> "Argentinian") @@
    (3 :> "Australian") @@
    (4 :> "Austrian") @@
    (5 :> "Azerbaijani") @@
    (6 :> "Bahraini") @@
    (7 :> "Belgian") @@
    (8 :> "Bolivian") @@
    (9 :> "Brazilian") @@
    (10 :> "British") @@
    (11 :> "Bulgarian") @@
    (12 :> "Cameroonian") @@
    (13 :> "Canadian") @@
    (14 :> "Chilean") @@
    (15 :> "Chinese") @@
    (16 :> "Colombian") @@
    (17 :> "Costa Rican") @@
    (18 :> "Croatian") @@
    (19 :> "Cypriot") @@
    (20 :> "Czech") @@
    (21 :> "Danish") @@
    (22 :> "Dutch") @@
    (23 :> "Ecuadorian") @@
    (24 :> "English") @@
    (25 :> "Emirian") @@
    (26 :> "Estonian") @@
    (27 :> "Finnish") @@
    (28 :> "French") @@
    (29 :> "German") @@
    (30 :> "Ghanaian") @@
    (31 :> "Greek") @@
    (32 :> "Guatemalan") @@
    (33 :> "Honduran") @@
    (34 :> "Hong Konger") @@
    (35 :> "Hungarian") @@
    (36 :> "Icelander") @@
    (37 :> "Indian") @@
    (38 :> "Indonesian") @@
    (39 :> "Irish") @@
    (40 :> "Israeli") @@
    (41 :> "Italian") @@
    (42 :> "Jamaican") @@
    (43 :> "Japanese") @@
    (44 :> "Jordanian") @@
    (45 :> "Kuwaiti") @@
    (46 :> "Latvian") @@
    (47 :> "Lebanese") @@
    (48 :> "Lithuanian") @@
    (49 :> "Luxembourger") @@
    (50 :> "Malaysian") @@
    (51 :> "Maltese") @@
    (52 :> "Mexican") @@
    (53 :> "Monegasque") @@
    (54 :> "New Zealander") @@
    (55 :> "Nicaraguan") @@
    (56 :> "North Korean") @@
    (57 :> "Northern Irish") @@
    (58 :> "Norwegian") @@
    (59 :> "Omani") @@
    (60 :> "Pakistani") @@
    (61 :> "Panamanian") @@
    (62 :> "Paraguayan") @@
    (63 :> "Peruvian") @@
    (64 :> "Polish") @@
    (65 :> "Portuguese") @@
    (66 :> "Qatari") @@
    (67 :> "Romanian") @@
    (68 :> "Russian") @@
    (69 :> "Salvadoran") @@
    (70 :> "Saudi") @@
    (71 :> "Scottish") @@
    (72 :> "Serbian") @@
    (73 :> "Singaporean") @@
    (74 :> "Slovakian") @@
    (75 :> "Slovenian") @@
    (76 :> "South Korean") @@
    (77 :> "South African") @@
    (78 :> "Spanish") @@
    (79 :> "Swedish") @@
    (80 :> "Swiss") @@
    (81 :> "Thai") @@
    (82 :> "Turkish") @@
    (83 :> "Uruguayan") @@
    (84 :> "Ukrainian") @@
    (85 :> "Venezuelan") @@
    (86 :> "Welsh") @@
    (87 :> "Barbadian") @@
    (88 :> "Vietnamese")

SurfaceTypesInit ==
    (0 :> "Tarmac") @@
    (1 :> "Rumble strip") @@
    (2 :> "Concrete") @@
    (3 :> "Rock") @@
    (4 :> "Gravel") @@
    (5 :> "Mud") @@
    (6 :> "Sand") @@
    (7 :> "Grass") @@
    (8 :> "Water") @@
    (9 :> "Cobblestone") @@
    (10 :> "Metal") @@
    (11 :> "Ridged")

PenaltyTypesInit ==
    (0 :> "Drive through") @@
    (1 :> "Stop Go") @@
    (2 :> "Grid penalty") @@
    (3 :> "Penalty reminder") @@
    (4 :> "Time penalty") @@
    (5 :> "Warning") @@
    (6 :> "Disqualified") @@
    (7 :> "Removed from formation lap") @@
    (8 :> "Parked too long timer") @@
    (9 :> "Tyre regulations") @@
    (10 :> "This lap invalidated") @@
    (11 :> "This and next lap invalidated") @@
    (12 :> "This lap invalidated without reason") @@
    (13 :> "This and next lap invalidated without reason") @@
    (14 :> "This and previous lap invalidated") @@
    (15 :> "This and previous lap invalidated without reason") @@
    (16 :> "Retired") @@
    (17 :> "Black flag timer")

InfringementTypesInit ==
    (0 :> "Blocking by slow driving") @@
    (1 :> "Blocking by wrong way driving") @@
    (2 :> "Reversing off the start line") @@
    (3 :> "Big Collision") @@
    (4 :> "Small Collision") @@
    (5 :> "Collision failed to hand back position single") @@
    (6 :> "Collision failed to hand back position multiple") @@
    (7 :> "Corner cutting gained time") @@
    (8 :> "Corner cutting overtake single") @@
    (9 :> "Corner cutting overtake multiple") @@
    (10 :> "Crossed pit exit lane") @@
    (11 :> "Ignoring blue flags") @@
    (12 :> "Ignoring yellow flags") @@
    (13 :> "Ignoring drive through") @@
    (14 :> "Too many drive throughs") @@
    (15 :> "Drive through reminder serve within n laps") @@
    (16 :> "Drive through reminder serve this lap") @@
    (17 :> "Pit lane speeding") @@
    (18 :> "Parked for too long") @@
    (19 :> "Ignoring tyre regulations") @@
    (20 :> "Too many penalties") @@
    (21 :> "Multiple warnings") @@
    (22 :> "Approaching disqualification") @@
    (23 :> "Tyre regulations select single") @@
    (24 :> "Tyre regulations select multiple") @@
    (25 :> "Lap invalidated corner cutting") @@
    (26 :> "Lap invalidated running wide") @@
    (27 :> "Corner cutting ran wide gained time minor") @@
    (28 :> "Corner cutting ran wide gained time significant") @@
    (29 :> "Corner cutting ran wide gained time extreme") @@
    (30 :> "Lap invalidated wall riding") @@
    (31 :> "Lap invalidated flashback used") @@
    (32 :> "Lap invalidated reset to track") @@
    (33 :> "Blocking the pitlane") @@
    (34 :> "Jump start") @@
    (35 :> "Safety car to car collision") @@
    (36 :> "Safety car illegal overtake") @@
    (37 :> "Safety car exceeding allowed pace") @@
    (38 :> "Virtual safety car exceeding allowed pace") @@
    (39 :> "Formation lap below allowed speed") @@
    (40 :> "Retired mechanical failure") @@
    (41 :> "Retired terminally damaged") @@
    (42 :> "Safety car falling too far back") @@
    (43 :> "Black flag timer") @@
    (44 :> "Unserved stop go penalty") @@
    (45 :> "Unserved drive through penalty") @@
    (46 :> "Engine component change") @@
    (47 :> "Gearbox change") @@
    (48 :> "League grid penalty") @@
    (49 :> "Retry penalty") @@
    (50 :> "Illegal time gain") @@
    (51 :> "Mandatory pitstop")

\* variant: the entry of the lobby-info packet is missing
PacketID_short_descriptionInit_nolobby ==
    [MOTION |-> "Motion",
     SESSION |-> "Session",
     LAP_DATA |-> "Lap Data",
     EVENT |-> "Event",
     PARTICIPANTS |-> "Participants",
     CAR_SETUPS |-> "Car Setups",
     CAR_TELEMETRY |-> "Car Telemetry",
     CAR_STATUS |-> "Car Status",
     FINAL_CLASSIFICATION |-> "Final Classification"]

PacketID_short_descriptionInit ==
    [MOTION |-> "Motion",
     SESSION |-> "Session",
     LAP_DATA |-> "Lap Data",
     EVENT |-> "Event",
     PARTICIPANTS |-> "Participants",
     CAR_SETUPS |-> "Car Setups",
     CAR_TELEMETRY |-> "Car Telemetry",
     CAR_STATUS |-> "Car Status",
     FINAL_CLASSIFICATION |-> "Final Classification",
     LOBBY_INFO |-> "Lobby information"]

\* (the en dash of the source strings is written "-")
PacketID_long_descriptionInit ==
    [MOTION |-> "Contains all motion data for player's car - only sent while player is in control",
     SESSION |-> "Data about the session - track, time left",
     LAP_DATA |-> "Data about all the lap times of cars in the session",
     EVENT |-> "Various notable events that happen during a session",
     PARTICIPANTS |-> "List of participants in the session, mostly relevant for multiplayer",
     CAR_SETUPS |-> "Packet detailing car setups for cars in the race",
     CAR_TELEMETRY |-> "Telemetry data for all cars",
     CAR_STATUS |-> "Status data for all cars such as damage",
     FINAL_CLASSIFICATION |-> "Final classification confirmation at the end of a race",
     LOBBY_INFO |-> "Information about players in a multiplayer lobby"]

EventStringCode_short_descriptionInit ==
    [SSTA |-> "Session Started",
     SEND |-> "Session Ended",
     FTLP |-> "Fastest Lap",
     RTMT |-> "Retirement",
     DRSE |-> "DRS enabled",
     DRSD |-> "DRS disabled",
     TMPT |-> "Team mate in pits",
     CHQF |-> "Chequered flag",
     RCWN |-> "Race Winner",
     PENA |-> "Penalty issued",
     SPTP |-> "Speed trap triggered"]

EventStringCode_long_descriptionInit ==
    [SSTA |-> "Sent when the session starts",
     SEND |-> "Sent when the session ends",
     FTLP |-> "When a driver achieves the fastest lap",
     RTMT |-> "When a driver retires",
     DRSE |-> "Race control have enabled DRS",
     DRSD |-> "Race control have disabled DRS",
     TMPT |-> "Your team mate has entered the pits",
     CHQF |-> "The chequered flag has been waved",
     RCWN |-> "The race winner is announced",
     PENA |-> "A penalty has been issued",
     SPTP |-> "Speed trap has been triggered"]

ButtonFlag_descriptionInit ==
    [CROSS |-> "Cross or A",
     TRIANGLE |-> "Triangle or Y",
     CIRCLE |-> "Circle or B",
     SQUARE |-> "Square or X",
     D_PAD_LEFT |-> "D-pad Left",
     D_PAD_RIGHT |-> "D-pad Right",
     D_PAD_UP |-> "D-pad Up",
     D_PAD_DOWN |-> "D-pad Down",
     OPTIONS |-> "Options or Menu",
     L1 |-> "L1 or LB",
     R1 |-> "R1 or RB",
     L2 |-> "L2 or LT",
     R2 |-> "R2 or RT",
     LEFT_STICK_CLICK |-> "Left Stick Click",
     RIGHT_STICK_CLICK |-> "Right Stick Click"]

ButtonFlag ==
    [CROSS |-> 1,
     TRIANGLE |-> 2,
     CIRCLE |-> 4,
     SQUARE |-> 8,
     D_PAD_LEFT |-> 16,
     D_PAD_RIGHT |-> 32,
     D_PAD_UP |-> 64,
     D_PAD_DOWN |-> 128,
     OPTIONS |-> 256,
     L1 |-> 512,
     R1 |-> 1024,
     L2 |-> 2048,
     R2 |-> 4096,
     LEFT_STICK_CLICK |-> 8192,
     RIGHT_STICK_CLICK |-> 16384]

\* ------------------------------------------------------------------------
\* unpack_udp_packet, statement by statement
\* ------------------------------------------------------------------------

VARIABLES
    HeaderFieldsToPacketType, \* the registry (module global)
    pc,                       \* position of the caller in unpack_udp_packet
    input,                    \* description of the datagram being decoded
    packet,                   \* argument: the bytes of the datagram
    actual_packet_size,       \* locals of unpack_udp_packet (-1, <<>>, "":
    header_size,              \*   not yet assigned)
    header,
    key,
    packet_type,
    expected_packet_size,
    result,                   \* what the call returned or raised
    text,                     \* repr() of the returned record, once taken
    ncalls,                   \* calls completed so far
    last,                     \* how the previous call ended ("" before it)
    TeamIDs,                  \* the value tables (module globals)
    DriverIDs,
    TrackIDs,
    NationalityIDs,
    SurfaceTypes,
    PenaltyTypes,
    InfringementTypes,
    PacketID_short_description,   \* the description maps (class attributes)
    PacketID_long_description,
    EventStringCode_short_description,
    EventStringCode_long_description,
    ButtonFlag_description,
    other,                    \* the frame of a second, concurrent caller
    kept                      \* a record the caller kept, and the memory behind it

tables ==
    <<TeamIDs, DriverIDs, TrackIDs, NationalityIDs, SurfaceTypes, PenaltyTypes,
      InfringementTypes, PacketID_short_description, PacketID_long_description,
      EventStringCode_short_description, EventStringCode_long_description,
      ButtonFlag_description>>

vars ==
    <<HeaderFieldsToPacketType, pc, input, packet, actual_packet_size,
      header_size, header, key, packet_type, expected_packet_size, result, text,
      ncalls, last, tables, other, kept>>

locals ==
    <<actual_packet_size, header_size, header, key, packet_type,
      expected_packet_size>>

NoResult ==
    [kind |-> "none", type |-> "", raw |-> <<>>, reason |-> "",
     key |-> <<>>, expected |-> -1, actual |-> -1]

\* return value: an instance of the class named type holding the bytes raw
Returned(type, raw) == [NoResult EXCEPT !.kind = "record", !.type = type, !.raw = raw]

\* raise UnpackError("Bad telemetry packet: too short (... bytes).")
TooShort(actual) ==
    [NoResult EXCEPT !.kind = "UnpackError", !.reason = "too short", !.actual = actual]

\* raise UnpackError("Bad telemetry packet: no match for key fields ....")
NoMatch(k) ==
    [NoResult EXCEPT !.kind = "UnpackError", !.reason = "no match for key fields",
                     !.key = k]

\* raise UnpackError("Bad telemetry packet: bad size for ... packet; expected
\* ... bytes but received ... bytes.")
BadSize(type, expected, actual) ==
    [NoResult EXCEPT !.kind = "UnpackError", !.reason = "bad size", !.type = type,
                     !.expected = expected, !.actual = actual]

\* ValueError out of from_buffer_copy (buffer smaller than the structure)
BufferTooSmall == [NoResult EXCEPT !.kind = "ValueError"]

\* the frame of a caller that is not inside unpack_udp_packet
IdleFrame ==
    [pc |-> "idle", packet |-> <<>>, actual_packet_size |-> -1, header_size |-> -1,
     header |-> <<>>, key |-> <<>>, packet_type |-> "",
     expected_packet_size |-> -1, result |-> NoResult]

\* nothing kept: no record, and neither the buffer nor the record has memory
NoKept ==
    [type |-> "", at |-> "", orig |-> <<>>,
     heap |-> [buffer |-> <<>>, record |-> <<>>]]

Init ==
    /\ HeaderFieldsToPacketType = HeaderFieldsToPacketTypeInit
    /\ pc = "idle"
    /\ input = NoInput
    /\ packet = <<>>
    /\ actual_packet_size = -1
    /\ header_size = -1
    /\ header = <<>>
    /\ key = <<>>
    /\ packet_type = ""
    /\ expected_packet_size = -1
    /\ result = NoResult
    /\ text = NoRepr
    /\ ncalls = 0
    /\ last = ""
    /\ TeamIDs = TeamIDsInit
    /\ DriverIDs = DriverIDsInit
    /\ TrackIDs = TrackIDsInit
    /\ NationalityIDs = NationalityIDsInit
    /\ SurfaceTypes = SurfaceTypesInit
    /\ PenaltyTypes = PenaltyTypesInit
    /\ InfringementTypes = InfringementTypesInit
    /\ PacketID_short_description = PacketID_short_descriptionInit
    /\ PacketID_long_description = PacketID_long_descriptionInit
    /\ EventStringCode_short_description = EventStringCode_short_descriptionInit
    /\ EventStringCode_long_description = EventStringCode_long_descriptionInit
    /\ ButtonFlag_description = ButtonFlag_descriptionInit
    /\ other = IdleFrame
    /\ kept = NoKept

\* the caller invokes unpack_udp_packet(packet); the two sizes are taken
Call(in) ==
    /\ pc = "idle"
    /\ ncalls < MaxCalls
    /\ input' = in
    /\ packet' = MkPacket(in)
    /\ actual_packet_size' = Len(packet')
    /\ header_size' = sizeof(PacketHeader)
    /\ pc' = "check_len"
    /\ UNCHANGED <<HeaderFieldsToPacketType, tables, kept, other, last, header, key, packet_type,
                   expected_packet_size, result, text, ncalls>>

\* variant: off by one, a 23-byte buffer is let through
IsTooShort_lenient(actual, hsize) == actual + 1 < hsize

\* variant: only the empty buffer is rejected
IsTooShort_emptyonly(actual, hsize) == actual = 0

\* the test of the packet length against the header size
IsTooShort(actual, hsize) == actual < hsize

\* if actual_packet_size < header_size: raise
CheckLen ==
    /\ pc = "check_len"
    /\ IF IsTooShort(actual_packet_size, header_size)
       THEN /\ result' = TooShort(actual_packet_size)
            /\ pc' = "done"
       ELSE /\ pc' = "read_header"
            /\ UNCHANGED result
    /\ UNCHANGED <<HeaderFieldsToPacketType, tables, kept, other, last, input, packet, locals, text, ncalls>>

\* variant: the version of the header is not looked at
KeyOf_anyversion(hraw) ==
    <<GetAttr(PacketHeader, hraw, 0, "packetFormat"),
      1,
      GetAttr(PacketHeader, hraw, 0, "packetId")>>

\* variant: the game's major version is taken for the packet version
KeyOf_gameversion(hraw) ==
    <<GetAttr(PacketHeader, hraw, 0, "packetFormat"),
      GetAttr(PacketHeader, hraw, 0, "gameMajorVersion"),
      GetAttr(PacketHeader, hraw, 0, "packetId")>>

\* the (packetFormat, packetVersion, packetId) of a decoded header
KeyOf(hraw) ==
    <<GetAttr(PacketHeader, hraw, 0, "packetFormat"),
      GetAttr(PacketHeader, hraw, 0, "packetVersion"),
      GetAttr(PacketHeader, hraw, 0, "packetId")>>

\* header = PacketHeader.from_buffer_copy(packet); key = (...)
ReadHeader ==
    /\ pc = "read_header"
    /\ LET h == from_buffer_copy(PacketHeader, packet)
       IN  IF h.ok
           THEN /\ header' = h.raw
                /\ key' = KeyOf(h.raw)
                /\ pc' = "lookup"
                /\ UNCHANGED result
           ELSE /\ result' = BufferTooSmall
                /\ pc' = "done"
                /\ UNCHANGED <<header, key>>
    /\ UNCHANGED <<HeaderFieldsToPacketType, tables, kept, other, last, input, packet, actual_packet_size,
                   header_size, packet_type, expected_packet_size, text, ncalls>>

\* variant: a key that is not registered falls back to the event schema
Lookup_default ==
    /\ pc = "lookup"
    /\ packet_type' = IF key \in DOMAIN HeaderFieldsToPacketType
                      THEN HeaderFieldsToPacketType[key]
                      ELSE "PacketEventData_V1"
    /\ expected_packet_size' = sizeof(Class(packet_type'))
    /\ pc' = "check_size"
    /\ UNCHANGED result
    /\ UNCHANGED <<HeaderFieldsToPacketType, tables, kept, other, last, input, packet, actual_packet_size,
                   header_size, header, key, text, ncalls>>

\* variant: a miss is remembered in the registry under the event layout
Lookup_caching ==
    /\ pc = "lookup"
    /\ IF key \notin DOMAIN HeaderFieldsToPacketType
       THEN /\ result' = NoMatch(key)
            /\ pc' = "done"
            /\ HeaderFieldsToPacketType' =
                  HeaderFieldsToPacketType @@ (key :> "PacketEventData_V1")
            /\ UNCHANGED <<packet_type, expected_packet_size>>
       ELSE /\ packet_type' = HeaderFieldsToPacketType[key]
            /\ expected_packet_size' = sizeof(Class(packet_type'))
            /\ pc' = "check_size"
            /\ UNCHANGED <<result, HeaderFieldsToPacketType>>
    /\ UNCHANGED <<tables, kept, other, last, input, packet, actual_packet_size,
                   header_size, header, key, text, ncalls>>

\* if key not in HeaderFieldsToPacketType: raise; else the type and its size
Lookup ==
    /\ pc = "lookup"
    /\ IF key \notin DOMAIN HeaderFieldsToPacketType
       THEN /\ result' = NoMatch(key)
            /\ pc' = "done"
            /\ UNCHANGED <<packet_type, expected_packet_size>>
       ELSE /\ packet_type' = HeaderFieldsToPacketType[key]
            /\ expected_packet_size' = sizeof(Class(packet_type'))
            /\ pc' = "check_size"
            /\ UNCHANGED result
    /\ UNCHANGED <<HeaderFieldsToPacketType, tables, kept, other, last, input, packet, actual_packet_size,
                   header_size, header, key, text, ncalls>>

\* variant: a buffer longer than the schema is accepted (and cut)
SizesDiffer_longer_ok(actual, expected) == actual < expected

\* variant: a buffer shorter than the schema is accepted
SizesDiffer_shorter_ok(actual, expected) == actual > expected

\* the comparison of the two sizes
SizesDiffer(actual, expected) == actual /= expected

\* if actual_packet_size != expected_packet_size: raise
CheckSize ==
    /\ pc = "check_size"
    /\ IF SizesDiffer(actual_packet_size, expected_packet_size)
       THEN /\ result' = BadSize(packet_type, expected_packet_size, actual_packet_size)
            /\ pc' = "done"
       ELSE /\ pc' = "decode"
            /\ UNCHANGED result
    /\ UNCHANGED <<HeaderFieldsToPacketType, tables, kept, other, last, input, packet, locals, text, ncalls>>

\* variant: the driver of the first participant is looked up while decoding
Decode_validating ==
    /\ pc = "decode"
    /\ LET r == from_buffer_copy(Class(packet_type), packet)
       IN  result' =
              IF ~r.ok THEN BufferTooSmall
              ELSE IF /\ packet_type = "PacketParticipantsData_V1"
                      /\ r.raw[27] \notin DOMAIN DriverIDs
                   THEN [NoResult EXCEPT !.kind = "KeyError"]
              ELSE Returned(packet_type, r.raw)
    /\ pc' = "done"
    /\ UNCHANGED <<HeaderFieldsToPacketType, tables, kept, other, last, input, packet, locals, text, ncalls>>

\* return packet_type.from_buffer_copy(packet)
Decode ==
    /\ pc = "decode"
    /\ LET r == from_buffer_copy(Class(packet_type), packet)
       IN  result' = IF r.ok THEN Returned(packet_type, r.raw) ELSE BufferTooSmall
    /\ pc' = "done"
    /\ UNCHANGED <<HeaderFieldsToPacketType, tables, kept, other, last, input, packet, locals, text, ncalls>>

\* the caller prints the record it was given
TakeRepr ==
    /\ pc = "done"
    /\ result.kind = "record"
    /\ text = NoRepr
    /\ text' = Repr(result.type, result.raw)
    /\ UNCHANGED <<HeaderFieldsToPacketType, tables, kept, other, last, pc, input, packet, locals, result,
                   ncalls>>

\* the caller drops the outcome and is ready for the next datagram
Return ==
    /\ pc = "done"
    /\ pc' = "idle"
    /\ input' = NoInput
    /\ packet' = <<>>
    /\ actual_packet_size' = -1
    /\ header_size' = -1
    /\ header' = <<>>
    /\ key' = <<>>
    /\ packet_type' = ""
    /\ expected_packet_size' = -1
    /\ result' = NoResult
    /\ text' = NoRepr
    /\ ncalls' = ncalls + 1
    /\ last' = IF result.kind = "record" THEN "record" ELSE result.reason
    /\ UNCHANGED <<HeaderFieldsToPacketType, tables, kept, other>>

Next ==
    \/ \E in \in Inputs : Call(in)
    \/ CheckLen
    \/ ReadHeader
    \/ Lookup
    \/ CheckSize
    \/ Decode
    \/ TakeRepr
    \/ Return

Spec == Init /\ [][Next]_vars

\* ------------------------------------------------------------------------
\* Two callers inside unpack_udp_packet at once, each with its own frame;
\* HeaderFieldsToPacketType is the only object they both reach
\* ------------------------------------------------------------------------

\* the second caller enters unpack_udp_packet(packet)
OtherCall(in) ==
    /\ other.pc = "idle"
    /\ other' = [IdleFrame EXCEPT !.pc = "check_len",
                                  !.packet = MkPacket(in),
                                  !.actual_packet_size = Len(MkPacket(in)),
                                  !.header_size = sizeof(PacketHeader)]
    /\ UNCHANGED <<HeaderFieldsToPacketType, tables, kept, pc, input, packet, locals,
                   result, text, ncalls, last>>

\* the frame f after the next statement of unpack_udp_packet, run against
\* the registry reg
FrameStep(f, reg) ==
    CASE f.pc = "check_len" ->
            IF IsTooShort(f.actual_packet_size, f.header_size)
            THEN [f EXCEPT !.result = TooShort(f.actual_packet_size), !.pc = "done"]
            ELSE [f EXCEPT !.pc = "read_header"]
      [] f.pc = "read_header" ->
            LET h == from_buffer_copy(PacketHeader, f.packet)
            IN  IF h.ok
                THEN [f EXCEPT !.header = h.raw, !.key = KeyOf(h.raw), !.pc = "lookup"]
                ELSE [f EXCEPT !.result = BufferTooSmall, !.pc = "done"]
      [] f.pc = "lookup" ->
            IF f.key \notin DOMAIN reg
            THEN [f EXCEPT !.result = NoMatch(f.key), !.pc = "done"]
            ELSE [f EXCEPT !.packet_type = reg[f.key],
                           !.expected_packet_size = sizeof(Class(reg[f.key])),
                           !.pc = "check_size"]
      [] f.pc = "check_size" ->
            IF SizesDiffer(f.actual_packet_size, f.expected_packet_size)
            THEN [f EXCEPT !.result = BadSize(f.packet_type, f.expected_packet_size,
                                              f.actual_packet_size),
                           !.pc = "done"]
            ELSE [f EXCEPT !.pc = "decode"]
      [] f.pc = "decode" ->
            LET r == from_buffer_copy(Class(f.packet_type), f.packet)
            IN  [f EXCEPT !.result = IF r.ok THEN Returned(f.packet_type, r.raw)
                                     ELSE BufferTooSmall,
                          !.pc = "done"]

\* the second caller runs its next statement
OtherStep ==
    /\ other.pc \in {"check_len", "read_header", "lookup", "check_size", "decode"}
    /\ other' = FrameStep(other, HeaderFieldsToPacketType)
    /\ UNCHANGED <<HeaderFieldsToPacketType, tables, kept, pc, input, packet, locals,
                   result, text, ncalls, last>>

\* the second caller has its outcome and drops the frame
OtherReturn ==
    /\ other.pc = "done"
    /\ other' = IdleFrame
    /\ UNCHANGED <<HeaderFieldsToPacketType, tables, kept, pc, input, packet, locals,
                   result, text, ncalls, last>>

NextConc ==
    \/ \E in \in ConcInputs : Call(in)
    \/ CheckLen
    \/ ReadHeader
    \/ Lookup
    \/ CheckSize
    \/ Decode
    \/ Return
    \/ \E in \in OtherInputs : OtherCall(in)
    \/ OtherStep
    \/ OtherReturn

SpecConc == Init /\ [][NextConc]_vars

\* ------------------------------------------------------------------------
\* A caller that keeps a returned record, goes on writing into the buffer
\* the record was decoded from, and decodes further buffers
\* ------------------------------------------------------------------------

\* buffers of the caller that keeps a record: four event packets, and
\* buffers of 23 and 36 bytes
KeepInputs ==
    {in \in ConcInputs :
        \/ /\ in \in EventInputs
           /\ in.code \in {Str4("F", "T", "L", "P"), Str4("S", "S", "T", "A")}
           /\ in.details \in {<<0, 0, 0, 0, 0, 0, 0>>, <<7, 123, 119, 182, 66, 9, 3>>}
        \/ /\ in \in PlainInputs
           /\ in.hdr.packetFormat = 2020
           /\ in.len \in {23, 36}}

\* positions of the buffer the caller writes to (packetId, first byte of the
\* event code, first payload byte), and the bytes written
ScribbleAt == {6, 25, 29}
ScribbleBytes == {0, 255}

\* variant: the record is a view of the buffer (from_buffer)
RecordMemory_from_buffer == "buffer"

\* from_buffer_copy: the bytes the instance reads are its own copy
RecordMemory == "record"

\* the caller keeps the record it was returned; the buffer object stays its
\* own and holds the bytes that were decoded
Keep ==
    /\ pc = "done"
    /\ result.kind = "record"
    /\ kept = NoKept
    /\ kept' = [type |-> result.type, at |-> RecordMemory, orig |-> result.raw,
                heap |-> [buffer |-> packet, record |-> result.raw]]
    /\ UNCHANGED <<HeaderFieldsToPacketType, tables, other, pc, input, packet, locals,
                   result, text, ncalls, last>>

\* the caller writes byte b at position i of the buffer the kept record was
\* decoded from
Scribble(i, b) ==
    /\ kept /= NoKept
    /\ i <= Len(kept.heap.buffer)
    /\ kept' = [kept EXCEPT !.heap.buffer[i] = b]
    /\ UNCHANGED <<HeaderFieldsToPacketType, tables, other, pc, input, packet, locals,
                   result, text, ncalls, last>>

NextKeep ==
    \/ \E in \in KeepInputs : Call(in)
    \/ CheckLen
    \/ ReadHeader
    \/ Lookup
    \/ CheckSize
    \/ Decode
    \/ Return
    \/ Keep
    \/ \E i \in ScribbleAt, b \in ScribbleBytes : Scribble(i, b)

SpecKeep == Init /\ [][NextKeep]_vars

\* ------------------------------------------------------------------------
\* Properties
\* ------------------------------------------------------------------------

\* the header triple written into the datagram
InputTriple == <<input.hdr.packetFormat, input.hdr.packetVersion, input.hdr.packetId>>

\* the ten registered triples
RegisteredTriples == {<<2020, 1, k>> : k \in 0..9}

\* documented wire size by packet kind (kind k at position k + 1)
DocumentedSize == <<1464, 251, 1190, 35, 1213, 1102, 1307, 1344, 839, 1169>>

\* record type by packet kind (kind k at position k + 1)
RecordTypeOfKind ==
    <<"PacketMotionData_V1", "PacketSessionData_V1", "PacketLapData_V1",
      "PacketEventData_V1", "PacketParticipantsData_V1", "PacketCarSetupData_V1",
      "PacketCarTelemetryData_V1", "PacketCarStatusData_V1",
      "PacketFinalClassificationData_V1", "PacketLobbyInfoData_V1">>

\* C1: a buffer of fewer than 24 bytes (the empty one included) fails with
\* the too-short error whatever it contains; the header is never read and
\* no other error is produced.
C1_TooShort ==
    (pc /= "idle" /\ Len(packet) < 24) =>
        /\ pc \in {"check_len", "done"}
        /\ header = <<>> /\ key = <<>> /\ packet_type = ""
        /\ (pc = "done" => result = TooShort(Len(packet)))

C1_Witness ==
    /\ pc = "done"
    /\ Len(packet) = 23
    /\ input.hdr.sessionUID /= 0
    /\ result.kind = "UnpackError"
    /\ result.reason = "too short"

\* C2: a buffer of at least 24 bytes whose header triple is not one of the
\* ten registered triples fails with the no-match (unknown schema) error and
\* returns no record; a packetId outside 0..9 never gets a default schema.
C2_UnknownSchema ==
    (pc = "done" /\ Len(packet) >= 24 /\ InputTriple \notin RegisteredTriples) =>
        /\ result = NoMatch(InputTriple)
        /\ packet_type = ""

C2_Witness ==
    /\ pc = "done"
    /\ input.hdr.packetFormat = 2020
    /\ input.hdr.packetVersion = 1
    /\ input.hdr.packetId = 10
    /\ Len(packet) = 35
    /\ result.reason = "no match for key fields"

\* C3: for a registered kind, a buffer of at least 24 bytes whose length
\* differs from the schema's size fails with the bad-size (size mismatch)
\* error, which reports the schema's size as expected and len(buffer) as
\* actual; nothing is truncated or extended.
C3_SizeMismatch ==
    (/\ pc = "done"
     /\ Len(packet) >= 24
     /\ InputTriple \in RegisteredTriples
     /\ Len(packet) /= DocumentedSize[input.hdr.packetId + 1]) =>
        result = BadSize(RecordTypeOfKind[input.hdr.packetId + 1],
                         DocumentedSize[input.hdr.packetId + 1], Len(packet))

C3_Witness ==
    /\ pc = "done"
    /\ InputTriple = <<2020, 1, 0>>
    /\ Len(packet) = 1465
    /\ result.reason = "bad size"
    /\ result.expected = 1464
    /\ result.actual = 1465

\* the header of a returned record agrees, field by field, with the values
\* written into the datagram
HeaderAsWritten(type, raw) ==
    LET hv == GetAttr(Class(type), raw, 0, "header")
    IN  /\ hv.cls = "PacketHeader"
        /\ Len(hv.fields) = 10
        /\ \A i \in 1..Len(hv.fields) : hv.fields[i][2] = input.hdr[hv.fields[i][1]]

\* C4: for each registered triple, a buffer of exactly the documented size
\* with that header and a zero-filled payload decodes without error into the
\* record type of that kind, and every header field of the record equals the
\* value written into the first 24 bytes.
C4_ZeroPayloadDecodes ==
    (/\ pc = "done"
     /\ InputTriple \in RegisteredTriples
     /\ Len(packet) = DocumentedSize[input.hdr.packetId + 1]
     /\ input.fill = 0 /\ input.code = Fill(0, 4) /\ input.details = Fill(0, 7)) =>
        /\ result.kind = "record"
        /\ result.type = RecordTypeOfKind[input.hdr.packetId + 1]
        /\ HeaderAsWritten(result.type, result.raw)

C4_Witness ==
    /\ pc = "done"
    /\ InputTriple = <<2020, 1, 7>>
    /\ input.hdr.sessionUID = 1234567890
    /\ input.hdr.frameIdentifier = 16909060
    /\ input.fill = 0
    /\ result.kind = "record"
    /\ result.type = "PacketCarStatusData_V1"
    /\ Len(result.raw) = 1344

\* C5: the byte size of each registered schema equals the documented wire
\* size (Motion 1464, Session 251, Lap Data 1190, Event 35, Participants
\* 1213, Car Setups 1102, Car Telemetry 1307, Car Status 1344, Final
\* Classification 839, Lobby Info 1169) and the header is 24 bytes.
C5_Sizes ==
    /\ header_size /= -1 => header_size = 24
    /\ expected_packet_size /= -1 => expected_packet_size = DocumentedSize[key[3] + 1]
    /\ \A k \in DOMAIN HeaderFieldsToPacketType :
          sizeof(Class(HeaderFieldsToPacketType[k])) = DocumentedSize[k[3] + 1]

C5_Witness ==
    /\ pc = "check_size"
    /\ header_size = 24
    /\ packet_type = "PacketFinalClassificationData_V1"
    /\ expected_packet_size = 839

RECURSIVE SumWidths(_, _)
\* sum of the widths of the first i fields of T
SumWidths(T, i) == IF i = 0 THEN 0 ELSE sizeof(T.fields[i][2]) + SumWidths(T, i - 1)

RECURSIVE NoPadding(_)
\* T and every schema nested in it are laid out without padding: each field
\* of a structure starts where the previous one ends and the size is the sum
\* of the widths; the members of a union all start at 0 and the union is as
\* wide as its widest member
NoPadding(T) ==
    CASE T.k = "prim"   -> TRUE
      [] T.k = "array"  -> NoPadding(T.elem)
      [] T.k = "struct" ->
            /\ \A i \in 1..Len(T.fields) :
                  /\ FieldOffset(T, i) = SumWidths(T, i - 1)
                  /\ NoPadding(T.fields[i][2])
            /\ sizeof(T) = SumWidths(T, Len(T.fields))
      [] OTHER ->
            /\ \A i \in 1..Len(T.fields) :
                  /\ FieldOffset(T, i) = 0
                  /\ NoPadding(T.fields[i][2])
                  /\ sizeof(T.fields[i][2]) <= sizeof(T)
            /\ \E i \in 1..Len(T.fields) : sizeof(T.fields[i][2]) = sizeof(T)

\* C6: in every schema (header, sub-records, packet records, the event
\* payload sub-records overlaid in the union) each field's offset is the sum
\* of the widths of the fields declared before it and the size is the sum of
\* all widths; e.g. lapTime sits at offset 1 of the fastest-lap payload and
\* the union at offset 28 of the event packet.
C6_NoPadding ==
    /\ header_size /= -1 => NoPadding(PacketHeader)
    /\ packet_type /= "" => NoPadding(Class(packet_type))
    /\ result.kind = "record" => NoPadding(Class(result.type))
    /\ packet_type = "PacketEventData_V1" =>
          /\ OffsetOf(FastestLapData, "lapTime") = 1
          /\ OffsetOf(SpeedTrapData, "speed") = 1
          /\ OffsetOf(PacketEventData_V1, "eventStringCode") = 24
          /\ OffsetOf(PacketEventData_V1, "eventDetails") = 28

C6_Witness ==
    /\ pc = "done"
    /\ result.kind = "record"
    /\ result.type = "PacketEventData_V1"
    /\ input.code = EventStringCode.FTLP
    /\ sizeof(TypeOfField(PacketEventData_V1, "eventDetails")) = 7

\* C7: the registry holds exactly ten entries, one for each (2020, 1, k)
\* with k in 0..9 and none for any other format, version or kind; the lookup
\* of any other triple reports that there is no match.
C7_RegistryKeys ==
    /\ DOMAIN HeaderFieldsToPacketType = RegisteredTriples
    /\ Cardinality(DOMAIN HeaderFieldsToPacketType) = 10
    /\ PacketIDValues = 0..9
    /\ (pc = "done" /\ key /= <<>> /\ key \notin RegisteredTriples) => result = NoMatch(key)
    /\ (pc \in {"check_size", "decode"} \/ packet_type /= "") => key \in RegisteredTriples

C7_Witness ==
    /\ pc = "done"
    /\ key = <<2020, 2, 3>>
    /\ Len(packet) = 35
    /\ result.reason = "no match for key fields"

\* what the first failing check of unpack_udp_packet reports for the
\* datagram in hand
FirstFailure ==
    IF Len(packet) < 24 THEN TooShort(Len(packet))
    ELSE IF InputTriple \notin RegisteredTriples THEN NoMatch(InputTriple)
    ELSE IF Len(packet) /= DocumentedSize[input.hdr.packetId + 1]
         THEN BadSize(RecordTypeOfKind[input.hdr.packetId + 1],
                      DocumentedSize[input.hdr.packetId + 1], Len(packet))
    ELSE Returned(RecordTypeOfKind[input.hdr.packetId + 1], packet)

\* C8: the checks run in the order length of header, registry lookup, exact
\* size, full decode, and the first one that fails is reported: 24 or more
\* bytes with an unregistered triple give no-match whatever the length, and
\* fewer than 24 bytes give too-short even when the leading bytes form a
\* registered triple.
C8_CheckOrder ==
    /\ pc = "read_header" => (actual_packet_size >= 24 /\ header = <<>> /\ key = <<>>)
    /\ pc = "lookup" => (header /= <<>> /\ key /= <<>> /\ packet_type = "")
    /\ pc = "check_size" =>
          (key \in DOMAIN HeaderFieldsToPacketType /\ expected_packet_size /= -1)
    /\ pc = "decode" => actual_packet_size = expected_packet_size
    /\ pc /= "done" => result = NoResult
    /\ pc = "done" =>
          /\ result = FirstFailure
          /\ result.reason = "too short" => header = <<>>
          /\ result.reason = "no match for key fields" =>
                (header /= <<>> /\ expected_packet_size = -1)
          /\ result.reason = "bad size" => packet_type /= ""

C8_Witness ==
    /\ pc = "done"
    /\ InputTriple = <<2021, 1, 0>>
    /\ Len(packet) = 1465
    /\ result.reason = "no match for key fields"
    /\ expected_packet_size = -1

\* C9: a call ends in exactly one of a fully decoded record or one error of
\* the enumerated kinds; never a partially populated or default record, and
\* nothing is returned before the call ends.
C9_AllOrNothing ==
    /\ pc /= "done" => result = NoResult
    /\ pc = "done" =>
          \/ /\ result.kind = "record"
             /\ result.reason = ""
             /\ result.type = HeaderFieldsToPacketType[key]
             /\ Len(result.raw) = sizeof(Class(result.type))
             /\ result.raw = packet
          \/ /\ result.kind = "UnpackError"
             /\ result.reason \in {"too short", "no match for key fields", "bad size"}
             /\ result.raw = <<>>

C9_Witness ==
    /\ pc = "done"
    /\ result.kind = "record"
    /\ result.type = "PacketLobbyInfoData_V1"
    /\ input.fill = 65
    /\ Len(result.raw) = 1169

\* a 35-byte event datagram with header (2020, 1, 3) whose event code is
\* not one of the eleven recognised ones has been processed
UnknownEventCodeDone ==
    /\ pc = "done"
    /\ InputTriple = <<2020, 1, 3>>
    /\ Len(packet) = 35
    /\ input.code \notin EventStringCodeValues

\* C10 (as stated): decoding a 35-byte event packet whose event code is not
\* one of the eleven recognised codes fails instead of returning a record.
C10_UnknownEventCodeFails ==
    UnknownEventCodeDone => (result.kind /= "record" /\ result.kind /= "none")

\* C10 (amended): such a packet decodes; unpack_udp_packet returns a
\* PacketEventData_V1 record holding the unrecognised code, and only the
\* record's __repr__ raises (and produces no text).
C10_UnknownEventCodeDecodes ==
    UnknownEventCodeDone =>
        /\ result = Returned("PacketEventData_V1", packet)
        /\ Bytes(result.raw, 24, 4) = input.code
        /\ text /= NoRepr =>
              (text.raised \in {"RuntimeError", "UnicodeDecodeError"} /\ text.cls = "")

C10_Witness ==
    /\ UnknownEventCodeDone
    /\ input.code = Str4("X", "X", "X", "X")
    /\ result.kind = "record"
    /\ text.raised = "RuntimeError"

\* hasattr(instance of T, name)
HasAttr(T, name) == \E i \in 1..Len(T.fields) : T.fields[i][1] = name

\* the five event codes without a payload
NoPayloadCodes ==
    {Str4("S", "S", "T", "A"), Str4("S", "E", "N", "D"), Str4("D", "R", "S", "E"),
     Str4("D", "R", "S", "D"), Str4("C", "H", "Q", "F")}

\* the six event codes with a payload
PayloadCodes ==
    {Str4("F", "T", "L", "P"), Str4("P", "E", "N", "A"), Str4("R", "C", "W", "N"),
     Str4("R", "T", "M", "T"), Str4("S", "P", "T", "P"), Str4("T", "M", "P", "T")}

\* the sub-record named for a payload code
PayloadMemberOf(code) ==
    CASE code = Str4("F", "T", "L", "P") -> "fastestLap"
      [] code = Str4("P", "E", "N", "A") -> "penalty"
      [] code = Str4("R", "C", "W", "N") -> "raceWinner"
      [] code = Str4("R", "T", "M", "T") -> "retirement"
      [] code = Str4("S", "P", "T", "P") -> "speedTrap"
      [] code = Str4("T", "M", "P", "T") -> "teamMateInPits"

\* the sub-record a payload code stands for, read from the bytes b of the
\* datagram: the payload starts at byte 28, that is at b[29]
PayloadFromBytes(code, b) ==
    CASE code = Str4("F", "T", "L", "P") ->
            [cls |-> "FastestLapData",
             fields |-> << <<"vehicleIdx", b[29]>>,
                           <<"lapTime", <<b[30], b[31], b[32], b[33]>> >> >>]
      [] code = Str4("P", "E", "N", "A") ->
            [cls |-> "PenaltyData",
             fields |-> << <<"penaltyType", b[29]>>, <<"infringementType", b[30]>>,
                           <<"vehicleIdx", b[31]>>, <<"otherVehicleIdx", b[32]>>,
                           <<"time", b[33]>>, <<"lapNum", b[34]>>,
                           <<"placesGained", b[35]>> >>]
      [] code = Str4("R", "C", "W", "N") ->
            [cls |-> "RaceWinnerData", fields |-> << <<"vehicleIdx", b[29]>> >>]
      [] code = Str4("R", "T", "M", "T") ->
            [cls |-> "RetirementData", fields |-> << <<"vehicleIdx", b[29]>> >>]
      [] code = Str4("S", "P", "T", "P") ->
            [cls |-> "SpeedTrapData",
             fields |-> << <<"vehicleIdx", b[29]>>,
                           <<"speed", <<b[30], b[31], b[32], b[33]>> >> >>]
      [] code = Str4("T", "M", "P", "T") ->
            [cls |-> "TeamMateInPitsData", fields |-> << <<"vehicleIdx", b[29]>> >>]

\* an event datagram with a recognised code has been decoded
EventDecoded ==
    /\ pc = "done"
    /\ result.kind = "record"
    /\ result.type = "PacketEventData_V1"
    /\ input.code \in NoPayloadCodes \cup PayloadCodes

\* C11 (as stated): a no-payload code decodes to a record that exposes no
\* payload value, and a payload code to exactly the matching sub-record read
\* from the bytes starting at byte 28.
C11_NoPayloadExposed ==
    EventDecoded =>
        /\ input.code \in NoPayloadCodes =>
              ~HasAttr(Class(result.type), "eventDetails")
        /\ input.code \in PayloadCodes =>
              GetAttr(EventDataDetails, result.raw, 28, PayloadMemberOf(input.code))
                  = PayloadFromBytes(input.code, packet)

\* C11 (amended): the decoded event record carries the 7-byte eventDetails
\* union at byte 28 whatever the code; its __repr__ shows no eventDetails
\* for the five no-payload codes, and for each of the six payload codes the
\* matching member, whose fields are read from the bytes starting at byte 28
\* (FTLP with byte 28 equal to 7 gives fastestLap.vehicleIdx = 7).
C11_PayloadByCode ==
    EventDecoded =>
        /\ HasAttr(Class(result.type), "eventDetails")
        /\ Len(result.raw) = 35
        /\ (input.code \in NoPayloadCodes /\ text /= NoRepr) =>
              (text.raised = "" /\ text.member = "" /\ text.cls = "PacketEventData_V1")
        /\ input.code \in PayloadCodes =>
              /\ GetAttr(EventDataDetails, result.raw, 28, PayloadMemberOf(input.code))
                    = PayloadFromBytes(input.code, packet)
              /\ text /= NoRepr =>
                    /\ text.raised = ""
                    /\ text.member = PayloadMemberOf(input.code)
                    /\ text.eventDetails = PayloadFromBytes(input.code, packet)
        /\ (input.code = Str4("F", "T", "L", "P") /\ packet[29] = 7) =>
              GetAttr(FastestLapData, result.raw, 28, "vehicleIdx") = 7

C11_Witness ==
    /\ EventDecoded
    /\ input.code = Str4("F", "T", "L", "P")
    /\ packet[29] = 7
    /\ text.member = "fastestLap"
    /\ text.eventDetails.fields[1] = <<"vehicleIdx", 7>>

\* C13: round trip.  A record of one of the ten kinds whose header carries
\* the kind's registered triple, serialised to its bytes and handed to
\* unpack_udp_packet, comes back as a record of the same type with every
\* field equal; and the bytes of any record that was decoded equal the
\* buffer it was decoded from.
C13_RoundTrip ==
    /\ (/\ pc = "done"
        /\ InputTriple \in RegisteredTriples
        /\ Len(packet) = sizeof(Class(RecordTypeOfKind[input.hdr.packetId + 1]))) =>
           /\ result.kind = "record"
           /\ result.type = RecordTypeOfKind[input.hdr.packetId + 1]
           /\ ValueOf(Class(result.type), result.raw, 0)
                 = ValueOf(Class(RecordTypeOfKind[input.hdr.packetId + 1]), packet, 0)
    /\ (pc = "done" /\ result.kind = "record") => result.raw = packet

C13_Witness ==
    /\ pc = "done"
    /\ InputTriple = <<2020, 1, 6>>
    /\ input.fill = 65
    /\ result.kind = "record"
    /\ result.type = "PacketCarTelemetryData_V1"
    /\ result.raw = packet
    /\ result.raw[1307] = 65

\* C14: the header is read field by field at fixed offsets, little endian
\* (packetFormat = byte 0 + 256 * byte 1, so E4 07 gives 2020; packetVersion
\* byte 4, packetId byte 5, sessionUID bytes 6..13, frameIdentifier bytes
\* 18..21, playerCarIndex byte 22, secondaryPlayerCarIndex byte 23) without
\* any check of kind or version: 24 or more bytes always give a header,
\* fewer than 24 give the length error.
C14_HeaderDecode ==
    /\ header /= <<>> =>
          /\ header = SubSeq(packet, 1, 24)
          /\ GetAttr(PacketHeader, header, 0, "packetFormat") = packet[1] + 256 * packet[2]
          /\ (packet[1] = 228 /\ packet[2] = 7) => key[1] = 2020
          /\ GetAttr(PacketHeader, header, 0, "packetVersion") = packet[5]
          /\ GetAttr(PacketHeader, header, 0, "packetId") = packet[6]
          /\ key = <<packet[1] + 256 * packet[2], packet[5], packet[6]>>
          /\ LEBytes(GetAttr(PacketHeader, header, 0, "sessionUID"), 8)
                = SubSeq(packet, 7, 14)
          /\ LEBytes(GetAttr(PacketHeader, header, 0, "frameIdentifier"), 4)
                = SubSeq(packet, 19, 22)
          /\ GetAttr(PacketHeader, header, 0, "playerCarIndex") = packet[23]
          /\ GetAttr(PacketHeader, header, 0, "secondaryPlayerCarIndex") = packet[24]
    /\ (pc \in {"lookup", "check_size", "decode"} \/ (pc = "done" /\ Len(packet) >= 24)) =>
          header /= <<>>
    /\ (pc = "done" /\ Len(packet) < 24) =>
          (header = <<>> /\ result.kind = "UnpackError" /\ result.reason = "too short")

C14_Witness ==
    /\ pc = "lookup"
    /\ Len(packet) = 24
    /\ packet[1] = 228 /\ packet[2] = 7
    /\ key = <<2020, 2, 10>>
    /\ GetAttr(PacketHeader, header, 0, "sessionUID") = 1234567890
    /\ GetAttr(PacketHeader, header, 0, "secondaryPlayerCarIndex") = 255

\* C15: after any sequence of calls, successful or failing in any mix, the
\* layout registry, the seven value tables and the enum description maps
\* hold exactly the contents they had at initialisation.
C15_SharedStateUnchanged ==
    /\ HeaderFieldsToPacketType = HeaderFieldsToPacketTypeInit
    /\ TeamIDs = TeamIDsInit
    /\ DriverIDs = DriverIDsInit
    /\ TrackIDs = TrackIDsInit
    /\ NationalityIDs = NationalityIDsInit
    /\ SurfaceTypes = SurfaceTypesInit
    /\ PenaltyTypes = PenaltyTypesInit
    /\ InfringementTypes = InfringementTypesInit
    /\ PacketID_short_description = PacketID_short_descriptionInit
    /\ PacketID_long_description = PacketID_long_descriptionInit
    /\ EventStringCode_short_description = EventStringCode_short_descriptionInit
    /\ EventStringCode_long_description = EventStringCode_long_descriptionInit
    /\ ButtonFlag_description = ButtonFlag_descriptionInit

\* a record has been returned by the call that follows a no-match failure
C15_Witness ==
    /\ ncalls = 1
    /\ last = "no match for key fields"
    /\ pc = "done"
    /\ result.kind = "record"
    /\ HeaderFieldsToPacketType = HeaderFieldsToPacketTypeInit
    /\ DriverIDs = DriverIDsInit

\* the outcome of unpack_udp_packet written as a function of the bytes of
\* the buffer and of nothing else
OutcomeOf(buf) ==
    IF Len(buf) < 24 THEN TooShort(Len(buf))
    ELSE LET k == <<buf[1] + 256 * buf[2], buf[5], buf[6]>>
         IN  IF k \notin RegisteredTriples THEN NoMatch(k)
             ELSE IF Len(buf) /= DocumentedSize[k[3] + 1]
                  THEN BadSize(RecordTypeOfKind[k[3] + 1], DocumentedSize[k[3] + 1],
                               Len(buf))
             ELSE Returned(RecordTypeOfKind[k[3] + 1], buf)

\* C17: the outcome of a call is a function of the bytes of its buffer
\* alone, whichever calls were made before and however they ended, and a
\* caller that is between calls holds nothing of the earlier calls.
C17_Deterministic ==
    /\ pc = "done" => result = OutcomeOf(packet)
    /\ pc = "idle" =>
          <<packet, header, key, packet_type, result>> = <<<<>>, <<>>, <<>>, "", NoResult>>

\* a second call ends with the no-match error after a first call that
\* ended with the same error
C17_Witness ==
    /\ ncalls = 1
    /\ last = "no match for key fields"
    /\ pc = "done"
    /\ result = OutcomeOf(packet)
    /\ result.reason = "no match for key fields"
    /\ Len(packet) = 35

\* the signed value of one byte (c_int8)
Int8(b) == IF b >= 128 THEN b - 256 ELSE b

\* C18: a buffer that passes the header, registry and size checks decodes
\* whether or not its driverId, teamId, nationality, trackId, surfaceType,
\* penaltyType or infringementType has an entry in the value table of that
\* name, and the decoded field holds the code found in the buffer.
C18_TablesNotConsulted ==
    (/\ pc = "done"
     /\ Len(packet) >= 24
     /\ key \in DOMAIN HeaderFieldsToPacketType
     /\ Len(packet) = sizeof(Class(HeaderFieldsToPacketType[key]))) =>
        /\ result.kind = "record"
        /\ result.type = "PacketParticipantsData_V1" =>
              LET o == OffsetOf(PacketParticipantsData_V1, "participants")
              IN  /\ GetAttr(ParticipantData_V1, result.raw, o, "driverId") = packet[o + 2]
                  /\ GetAttr(ParticipantData_V1, result.raw, o, "teamId") = packet[o + 3]
                  /\ GetAttr(ParticipantData_V1, result.raw, o, "nationality")
                        = packet[o + 5]
        /\ result.type = "PacketSessionData_V1" =>
              GetAttr(PacketSessionData_V1, result.raw, 0, "trackId") = Int8(packet[32])
        /\ result.type = "PacketCarTelemetryData_V1" =>
              LET o == OffsetOf(PacketCarTelemetryData_V1, "carTelemetryData")
                         + OffsetOf(CarTelemetryData_V1, "surfaceType")
              IN  GetAttr(CarTelemetryData_V1, result.raw,
                          OffsetOf(PacketCarTelemetryData_V1, "carTelemetryData"),
                          "surfaceType") = SubSeq(packet, o + 1, o + 4)
        /\ result.type = "PacketEventData_V1" =>
              /\ GetAttr(PenaltyData, result.raw, 28, "penaltyType") = packet[29]
              /\ GetAttr(PenaltyData, result.raw, 28, "infringementType") = packet[30]

\* a participants packet whose first participant has driver 3, team 20 and
\* nationality 0, none of them in its table, has been decoded
C18_Witness ==
    /\ pc = "done"
    /\ result.kind = "record"
    /\ result.type = "PacketParticipantsData_V1"
    /\ GetAttr(ParticipantData_V1, result.raw, 25, "driverId") = 3
    /\ 3 \notin DOMAIN DriverIDs
    /\ GetAttr(ParticipantData_V1, result.raw, 25, "teamId") = 20
    /\ 20 \notin DOMAIN TeamIDs
    /\ GetAttr(ParticipantData_V1, result.raw, 25, "nationality") \notin DOMAIN NationalityIDs

\* C19: the driver table maps code 34 to "Wilhelm Kaufmann", not to the
\* earlier spelling "Wilheim Kaufmann".
C19_WilhelmKaufmann ==
    /\ 34 \in DOMAIN DriverIDs
    /\ DriverIDs[34] = "Wilhelm Kaufmann"
    /\ DriverIDs[34] /= "Wilheim Kaufmann"

\* a participants packet naming driver 34 has been decoded and its driver
\* looked up by the caller
C19_Witness ==
    /\ pc = "done"
    /\ result.kind = "record"
    /\ result.type = "PacketParticipantsData_V1"
    /\ DriverIDs[GetAttr(ParticipantData_V1, result.raw, 25, "driverId")] = "Wilhelm Kaufmann"

\* the size of the payload sub-record called name
VariantSize(name) == sizeof(TypeOfField(EventDataDetails, name))

\* C20: each of the six payload sub-records fits in the payload region of an
\* event packet, bytes 28..34, 7 bytes = 35 - 24 - 4, and the region is as
\* large as the largest variant; the sizes are fastestLap 5, penalty 7,
\* raceWinner 1, retirement 1, speedTrap 5, teamMateInPits 1.
C20_PayloadRegion ==
    packet_type = "PacketEventData_V1" =>
        LET region == expected_packet_size - header_size
                        - sizeof(TypeOfField(PacketEventData_V1, "eventStringCode"))
            names  == {EventDataDetails.fields[i][1] :
                          i \in 1..Len(EventDataDetails.fields)}
        IN  /\ expected_packet_size = 35 /\ header_size = 24 /\ region = 7
            /\ OffsetOf(PacketEventData_V1, "eventDetails") = 28
            /\ sizeof(EventDataDetails) = region
            /\ names = {"fastestLap", "penalty", "raceWinner", "retirement",
                        "speedTrap", "teamMateInPits"}
            /\ \A n \in names : VariantSize(n) <= region
            /\ \E n \in names : VariantSize(n) = region
            /\ VariantSize("fastestLap") = 5 /\ VariantSize("penalty") = 7
            /\ VariantSize("raceWinner") = 1 /\ VariantSize("retirement") = 1
            /\ VariantSize("speedTrap") = 5 /\ VariantSize("teamMateInPits") = 1

\* a 35-byte penalty event has been decoded: its payload fills the region
C20_Witness ==
    /\ pc = "done"
    /\ result.kind = "record"
    /\ packet_type = "PacketEventData_V1"
    /\ input.code = Str4("P", "E", "N", "A")
    /\ Len(result.raw) = 28 + VariantSize("penalty")

\* the size of the sub-record that is active under an event code
ActiveSize(code) ==
    CASE code \in {Str4("F", "T", "L", "P"), Str4("S", "P", "T", "P")} -> 5
      [] code = Str4("P", "E", "N", "A") -> 7
      [] code \in {Str4("R", "C", "W", "N"), Str4("R", "T", "M", "T"),
                   Str4("T", "M", "P", "T")} -> 1
      [] OTHER -> 0

\* the payload the event record with bytes raw presents: the member chosen
\* and its value
ActivePayload(raw) ==
    LET t == PacketEventData_V1_repr(raw)
    IN  <<t.raised, t.member, t.eventDetails>>

\* both callers hold a decoded event record with one header and one code,
\* the code being one of the eleven of EventStringCode
SameEventTwice ==
    /\ pc = "done" /\ other.pc = "done"
    /\ result.kind = "record" /\ other.result.kind = "record"
    /\ result.type = "PacketEventData_V1" /\ other.result.type = "PacketEventData_V1"
    /\ SubSeq(packet, 1, 28) = SubSeq(other.packet, 1, 28)
    /\ SubSeq(packet, 25, 28) \in EventStringCodeValues

\* C12: the active payload variant depends on the event code only, and two
\* 35-byte event packets with the same header and code that agree on the
\* first n payload bytes, n the size of the active variant (5 for FTLP and
\* SPTP, 7 for PENA, 1 for RCWN, RTMT and TMPT, 0 for the five others),
\* decode to the same active payload value.
C12_DontCare ==
    SameEventTwice =>
        LET n == ActiveSize(SubSeq(packet, 25, 28))
        IN  /\ ActivePayload(result.raw)[2] = ActivePayload(other.result.raw)[2]
            /\ SubSeq(packet, 29, 28 + n) = SubSeq(other.packet, 29, 28 + n) =>
                  ActivePayload(result.raw) = ActivePayload(other.result.raw)

\* two race-winner events that agree on byte 28 only have been decoded
C12_Witness ==
    /\ SameEventTwice
    /\ SubSeq(packet, 25, 28) = Str4("R", "C", "W", "N")
    /\ packet[29] = other.packet[29]
    /\ packet[30] /= other.packet[30]
    /\ ActivePayload(result.raw)[2] = "raceWinner"
    /\ ActivePayload(result.raw) = ActivePayload(other.result.raw)

\* C16: with two callers inside unpack_udp_packet at once, under every
\* interleaving of their statements each obtains the outcome it would
\* obtain alone on its buffer, and the header, key and schema in each frame
\* are those of the frame's own buffer.
C16_Isolation ==
    /\ pc = "done" => result = OutcomeOf(packet)
    /\ other.pc = "done" => other.result = OutcomeOf(other.packet)
    /\ header /= <<>> => header = SubSeq(packet, 1, 24)
    /\ other.header /= <<>> =>
          /\ other.header = SubSeq(other.packet, 1, 24)
          /\ other.key = KeyOf(other.header)
    /\ packet_type /= "" => packet_type = OutcomeOf(packet).type
    /\ other.packet_type /= "" => other.packet_type = OutcomeOf(other.packet).type

\* the first caller has its record while the second, which entered with a
\* 36-byte buffer of another format, is between its statements
C16_Witness ==
    /\ pc = "done"
    /\ result.kind = "record"
    /\ other.pc = "lookup"
    /\ other.key = <<2021, 1, 3>>
    /\ other.actual_packet_size = 36
    /\ other.packet /= packet

\* the number of elements of the array field called name of T
ArrayLen(T, name) == TypeOfField(T, name).n

\* the per-car array of each packet record that has one
PerCarArray ==
    [PacketMotionData_V1              |-> "carMotionData",
     PacketLapData_V1                 |-> "lapData",
     PacketParticipantsData_V1        |-> "participants",
     PacketCarSetupData_V1            |-> "carSetups",
     PacketCarTelemetryData_V1        |-> "carTelemetryData",
     PacketCarStatusData_V1           |-> "carStatusData",
     PacketFinalClassificationData_V1 |-> "classificationData",
     PacketLobbyInfoData_V1           |-> "lobbyPlayers"]

CarStatusDecoded ==
    /\ pc = "done"
    /\ result.kind = "record"
    /\ result.type = "PacketCarStatusData_V1"

\* drsAllowed of the first car of the decoded car-status record
DrsAllowed ==
    GetAttr(CarStatusData_V1, result.raw,
            OffsetOf(PacketCarStatusData_V1, "carStatusData"), "drsAllowed")

\* the byte of the buffer that drsAllowed of the first car is read from
DrsAllowedByte ==
    packet[OffsetOf(PacketCarStatusData_V1, "carStatusData")
             + OffsetOf(CarStatusData_V1, "drsAllowed") + 1]

\* C22: drsAllowed of a decoded car-status sub-record is 0 for not allowed,
\* 1 for allowed and -1 for unknown: the wire byte 0xFF decodes to -1.
C22_DrsAllowedSigned ==
    CarStatusDecoded =>
        /\ DrsAllowed \in {0, 1, -1}
        /\ DrsAllowedByte = 0 => DrsAllowed = 0
        /\ DrsAllowedByte = 1 => DrsAllowed = 1
        /\ DrsAllowedByte = 255 => DrsAllowed = -1

\* the fields of the kept record as the caller reads them now
KeptFields == ValueOf(Class(kept.type), kept.heap[kept.at], 0)

\* C23: a returned record is a copy independent of the buffer it was decoded
\* from: it was produced by one decode of one buffer, and no later write to
\* that buffer and no later decode of another buffer changes any of its
\* fields.
C23_RecordIndependent ==
    kept /= NoKept =>
        /\ kept.heap[kept.at] = kept.orig
        /\ KeptFields = ValueOf(Class(kept.type), kept.orig, 0)
        /\ OutcomeOf(kept.orig) = Returned(kept.type, kept.orig)

\* a fastest-lap record is kept, its buffer has since been overwritten at
\* the code and the payload, and a later call decoded another buffer
C23_Witness ==
    /\ kept /= NoKept
    /\ kept.orig[25] = 70
    /\ kept.heap.buffer[25] = 255
    /\ kept.heap.buffer[29] /= kept.orig[29]
    /\ ncalls >= 1
    /\ pc = "done"
    /\ result.kind = "record"
    /\ result.raw /= kept.orig
    /\ GetAttr(PacketEventData_V1, kept.heap[kept.at], 0, "eventStringCode")
          = Str4("F", "T", "L", "P")

\* the header of the returned record, read from the record itself
ResultHeader == GetAttr(Class(result.type), result.raw, 0, "header")

\* the value of the field called name of the structure value v
FieldOf(v, name) ==
    v.fields[CHOOSE i \in 1..Len(v.fields) : v.fields[i][1] = name][2]

\* C24: a successful decode returns a record whose type is the registry
\* entry of the record's own header triple: its header has packetFormat
\* 2020, packetVersion 1 and a packetId in 0..9, and the record type is the
\* one registered for that packetId.
C24_TypeMatchesHeader ==
    (pc = "done" /\ result.kind = "record") =>
        LET f == FieldOf(ResultHeader, "packetFormat")
            v == FieldOf(ResultHeader, "packetVersion")
            k == FieldOf(ResultHeader, "packetId")
        IN  /\ f = 2020 /\ v = 1 /\ k \in 0..9
            /\ <<f, v, k>> \in DOMAIN HeaderFieldsToPacketType
            /\ result.type = HeaderFieldsToPacketType[<<f, v, k>>]
            /\ result.type = RecordTypeOfKind[k + 1]
            /\ k = PacketID.EVENT <=> result.type = "PacketEventData_V1"

\* a lobby-info record has been returned: its header names packetId 9
C24_Witness ==
    /\ pc = "done"
    /\ result.kind = "record"
    /\ result.type = "PacketLobbyInfoData_V1"
    /\ FieldOf(ResultHeader, "packetId") = 9
    /\ FieldOf(ResultHeader, "sessionUID") = 1234567890

\* the sizes of the registered schemas
RegisteredSizes ==
    {sizeof(Class(HeaderFieldsToPacketType[k])) : k \in DOMAIN HeaderFieldsToPacketType}

\* C25: the ten registered schema sizes are pairwise distinct and all above
\* the 24 bytes of the header, so a successful decode implies that the
\* buffer has one of the ten sizes and that the length alone gives the
\* packet kind; no buffer of 24..34 bytes, and none whose length is not one
\* of the ten sizes, decodes.
C25_LengthDeterminesKind ==
    pc = "done" =>
        LET sizes == RegisteredSizes
        IN  /\ Cardinality(DOMAIN HeaderFieldsToPacketType) = 10
            /\ Cardinality(sizes) = 10
            /\ \A s \in sizes : s > header_size /\ s > 24
            /\ result.kind = "record" =>
                  /\ Len(packet) \in sizes
                  /\ expected_packet_size = Len(packet)
                  /\ \A k \in DOMAIN HeaderFieldsToPacketType \ {key} :
                        sizeof(Class(HeaderFieldsToPacketType[k])) /= Len(packet)
            /\ Len(packet) \notin sizes => result.kind /= "record"
            /\ Len(packet) \in 24..34 => result.kind /= "record"

\* a 34-byte buffer with the event triple has been refused
C25_Witness ==
    /\ pc = "done"
    /\ Len(packet) = 34
    /\ key = <<2020, 1, 3>>
    /\ result.kind = "UnpackError"
    /\ result.reason = "bad size"

\* the class of an outcome: the kind of error, or the type of the record
OutcomeClass(r) == <<r.kind, r.reason, IF r.kind = "record" THEN r.type ELSE "">>

\* the bytes of packetFormat, packetVersion and packetId that a buffer holds
KeyBytes(buf) == [i \in {1, 2, 5, 6} \cap (1..Len(buf)) |-> buf[i]]

\* C26: dispatch depends on the length of the buffer and on packetFormat,
\* packetVersion and packetId only: two buffers of equal length that agree
\* on these three fields give the same outcome class (the same error kind,
\* or a record of the same type) whatever their other header fields and
\* their payload bytes.
C26_DispatchInputs ==
    (/\ pc = "done" /\ other.pc = "done"
     /\ Len(packet) = Len(other.packet)
     /\ KeyBytes(packet) = KeyBytes(other.packet)) =>
        OutcomeClass(result) = OutcomeClass(other.result)

\* two 35-byte event buffers that differ in the game version, the session,
\* the car indices and the payload have both been decoded as events
C26_Witness ==
    /\ pc = "done" /\ other.pc = "done"
    /\ Len(packet) = 35 /\ Len(other.packet) = 35
    /\ KeyBytes(packet) = KeyBytes(other.packet)
    /\ packet[3] /= other.packet[3]
    /\ packet[7] /= other.packet[7]
    /\ packet[23] /= other.packet[23]
    /\ packet[29] /= other.packet[29]
    /\ OutcomeClass(result) = <<"record", "", "PacketEventData_V1">>
    /\ OutcomeClass(other.result) = <<"record", "", "PacketEventData_V1">>

\* the text of a decoded event packet has been asked for
EventTextTaken ==
    /\ pc = "done"
    /\ result.kind = "record"
    /\ result.type = "PacketEventData_V1"
    /\ text /= NoRepr

\* the event code of the decoded record, as the record presents it
DecodedCode == GetAttr(PacketEventData_V1, result.raw, 0, "eventStringCode")

\* C27: the text of a decoded event packet is selected by the event code:
\* for CHQF, DRSD, DRSE, SEND and SSTA it holds the header and the code and
\* no eventDetails; for FTLP, PENA, RCWN, RTMT, SPTP and TMPT it holds
\* eventDetails rendered from the matching union member; for any other code
\* an error is raised and there is no text.
C27_ReprByCode ==
    EventTextTaken =>
        /\ DecodedCode \in NoPayloadCodes =>
              /\ text.raised = ""
              /\ text.cls = "PacketEventData_V1"
              /\ text.fields = << <<"header", ResultHeader>>,
                                  <<"eventStringCode", DecodedCode>> >>
              /\ text.member = "" /\ text.eventDetails = NoRepr.eventDetails
        /\ DecodedCode \in PayloadCodes =>
              /\ text.raised = ""
              /\ text.cls = "PacketEventData_V1"
              /\ text.fields = << <<"header", ResultHeader>>,
                                  <<"eventStringCode", DecodedCode>> >>
              /\ text.member = PayloadMemberOf(DecodedCode)
              /\ text.eventDetails
                    = GetAttr(EventDataDetails, result.raw, 28, PayloadMemberOf(DecodedCode))
        /\ DecodedCode \notin NoPayloadCodes \cup PayloadCodes =>
              /\ text.raised \in {"RuntimeError", "UnicodeDecodeError"}
              /\ text.cls = "" /\ text.fields = <<>> /\ text.member = ""

\* the text of a chequered-flag event has been taken: header and code only
C27_Witness ==
    /\ EventTextTaken
    /\ DecodedCode = Str4("C", "H", "Q", "F")
    /\ text.raised = ""
    /\ Len(text.fields) = 2
    /\ text.member = ""

\* the codes tried for which __repr__ reaches one of its six payload branches
PayloadBranchCodes == {c \in CodesTried : EventDetailsMember(c) /= ""}

\* C28: the five no-payload codes and the six payload codes of the variant
\* selection are disjoint and together are the eleven members of
\* EventStringCode: every recognised code selects exactly one branch and
\* none reaches the bad-event-code error.
C28_BranchesCoverCodes ==
    /\ Cardinality(NoDetailsEvents) = 5
    /\ Cardinality(PayloadBranchCodes) = 6
    /\ NoDetailsEvents \cap PayloadBranchCodes = {}
    /\ NoDetailsEvents \cup PayloadBranchCodes = EventStringCodeValues
    /\ Cardinality(EventStringCodeValues) = 11
    /\ (EventTextTaken /\ DecodedCode \in EventStringCodeValues) =>
          /\ text.raised = ""
          /\ (DecodedCode \in NoDetailsEvents) /= (text.member /= "")
          /\ text.member /= "" => text.member = EventDetailsMember(DecodedCode)

\* the text of a team-mate-in-pits event has been taken without an error
C28_Witness ==
    /\ EventTextTaken
    /\ DecodedCode = EventStringCode.TMPT
    /\ text.raised = ""
    /\ text.member = "teamMateInPits"

\* the member of the enumeration enum whose value is v
MemberOf(enum, v) == CHOOSE m \in DOMAIN enum : enum[m] = v

\* C29: the description maps are total over their enumerations, without
\* extra keys: PacketID.short_description and long_description have one
\* entry for each of the ten PacketID members, EventStringCode's two maps
\* one for each of the eleven event codes, ButtonFlag.description one for
\* each of the fifteen button flags.
C29_DescriptionsTotal ==
    /\ DOMAIN PacketID_short_description = DOMAIN PacketID
    /\ DOMAIN PacketID_long_description = DOMAIN PacketID
    /\ Cardinality(DOMAIN PacketID) = 10
    /\ DOMAIN EventStringCode_short_description = DOMAIN EventStringCode
    /\ DOMAIN EventStringCode_long_description = DOMAIN EventStringCode
    /\ Cardinality(DOMAIN EventStringCode) = 11
    /\ DOMAIN ButtonFlag_description = DOMAIN ButtonFlag
    /\ Cardinality(DOMAIN ButtonFlag) = 15
    /\ (pc = "done" /\ result.kind = "record") =>
          MemberOf(PacketID, key[3]) \in
              DOMAIN PacketID_short_description \cap DOMAIN PacketID_long_description
    /\ (pc = "done" /\ result.kind = "record" /\ result.type = "PacketEventData_V1"
          /\ SubSeq(packet, 25, 28) \in EventStringCodeValues) =>
          MemberOf(EventStringCode, SubSeq(packet, 25, 28)) \in
              DOMAIN EventStringCode_short_description
                 \cap DOMAIN EventStringCode_long_description

\* a lobby-info record has been decoded and the short description of its
\* packet id is in the map
C29_Witness ==
    /\ pc = "done"
    /\ result.kind = "record"
    /\ key[3] = PacketID.LOBBY_INFO
    /\ PacketID_short_description[MemberOf(PacketID, key[3])] = "Lobby information"

====
